---------------------------- MODULE Spec2Model ----------------------------
(***************************************************************************)
(* A model of retry_failed_issues.py: the CSV loader, the two HTTP         *)
(* clients, the get-or-create resolvers and the per-record execution       *)
(* workflow of migrate_executions.                                         *)
(*                                                                         *)
(* Text read from the CSV or from the directory (names, keys, comments) is *)
(* a sequence of one-character strings, so that strip, lower, replace and  *)
(* concatenation are computed; identifiers issued by the servers are TLA+  *)
(* strings.  Python's None is the value None below, which differs from the *)
(* text "None" that str(None) produces.                                    *)
(***************************************************************************)
EXTENDS Integers, Sequences, FiniteSets, TLC

(***************************************************************************)
(* Python values                                                           *)
(***************************************************************************)
None == "<None>"
StrNone == "None"

\* str(x): the text of an identifier the server issued, or "None" for None
Str(x) == IF x = None THEN StrNone ELSE x

\* Python truthiness of an optional string
Truthy(x) == x # None /\ x # ""

\* x or y
Or(x, y) == IF Truthy(x) THEN x ELSE y

\* dictionaries are functions with a finite domain
EmptyDict == <<>>
Has(d, k) == k \in DOMAIN d
Put(d, k, v) == (k :> v) @@ d

(***************************************************************************)
(* Text as sequences of characters                                         *)
(***************************************************************************)
UpperChars == <<"A","B","C","D","E","F","G","H","I","J","K","L","M",
                "N","O","P","Q","R","S","T","U","V","W","X","Y","Z">>
LowerChars == <<"a","b","c","d","e","f","g","h","i","j","k","l","m",
                "n","o","p","q","r","s","t","u","v","w","x","y","z">>

IsSpace(c) == c \in {" ", "\t", "\n"}

\* the lower-case letter of each upper-case letter, and the converse
LowerOf == [c \in {UpperChars[i] : i \in DOMAIN UpperChars} |->
              LowerChars[CHOOSE i \in DOMAIN UpperChars : UpperChars[i] = c]]
UpperOf == [c \in {LowerChars[i] : i \in DOMAIN LowerChars} |->
              UpperChars[CHOOSE i \in DOMAIN LowerChars : LowerChars[i] = c]]

LowerChar(c) == IF c \in DOMAIN LowerOf THEN LowerOf[c] ELSE c

\* s.lower()
Lower(s) == [i \in DOMAIN s |-> LowerChar(s[i])]

RECURSIVE LStrip(_)
LStrip(s) == IF s # <<>> /\ IsSpace(Head(s)) THEN LStrip(Tail(s)) ELSE s

RECURSIVE RStrip(_)
RStrip(s) ==
    IF s # <<>> /\ IsSpace(s[Len(s)]) THEN RStrip(SubSeq(s, 1, Len(s) - 1)) ELSE s

\* s.strip()
Strip(s) == RStrip(LStrip(s))

StartsWith(s, p) == Len(p) <= Len(s) /\ SubSeq(s, 1, Len(p)) = p

\* s.replace(p, ""): every non-overlapping occurrence of p, left to right
RECURSIVE Remove(_, _)
Remove(s, p) ==
    IF s = <<>> THEN <<>>
    ELSE IF StartsWith(s, p) THEN Remove(SubSeq(s, Len(p) + 1, Len(s)), p)
    ELSE <<Head(s)>> \o Remove(Tail(s), p)

\* " ".join(s.split()) of a stripped text: each run of whitespace becomes " "
RECURSIVE Collapse(_)
Collapse(s) ==
    IF s = <<>> THEN <<>>
    ELSE IF IsSpace(Head(s)) THEN <<" ">> \o Collapse(LStrip(s))
    ELSE <<Head(s)>> \o Collapse(Tail(s))

normalize_whitespace(s) == Collapse(Strip(s))

MarkerCap == <<"(","I","n","a","c","t","i","v","e",")">>
MarkerLow == <<"(","i","n","a","c","t","i","v","e",")">>

normalize_user_name(name) ==
    IF name = <<>> THEN <<>>
    ELSE normalize_whitespace(Remove(Remove(name, MarkerCap), MarkerLow))

(***************************************************************************)
(* HTTP responses as the callers see them: what jira_request and           *)
(* zephyr_request return.  code 0 is the absent result (None); json says   *)
(* whether resp.json() parses; data is the parsed body.                    *)
(***************************************************************************)
Resp(c, j, d) == [code |-> c, json |-> j, data |-> d]
NoResponse == Resp(0, FALSE, [message |-> "x"])

\* bool(resp): None is falsy, and requests.Response is truthy iff status < 400
RespTruthy(resp) == resp.code # 0 /\ resp.code < 400

\* resp and resp.status_code in codes
RespIn(resp, codes) == RespTruthy(resp) /\ resp.code \in codes

\* d.get(k)
Get(d, k) == IF Has(d, k) THEN d[k] ELSE None

\* a JSON object without any of the fields the program reads
NoFields == [message |-> "x"]

\* the ways a request can fail to give a usable answer
FailureResponses == {NoResponse, Resp(500, TRUE, NoFields)}

\* a 2xx answer whose body lacks the identifier, or is no JSON at all
MalformedResponses(c) == {Resp(c, TRUE, NoFields), Resp(c, FALSE, NoFields)}

\* a 2xx answer carrying identifier i
IdResponse(c, i) == Resp(c, TRUE, [id |-> i])

(***************************************************************************)
(* Jira and Zephyr lookups.  Each operator takes the response(s) the       *)
(* remote call would get and returns the function's result together with   *)
(* the updated cache, whether a request was issued (req) and whether the   *)
(* function raised (raised).                                               *)
(***************************************************************************)
Unscheduled == <<"U","n","s","c","h","e","d","u","l","e","d">>
AdHoc == <<"A","d"," ","h","o","c">>

\* a get_issue_id whose cache holds the latest issue only
get_issue_id_SingleSlot(issue_key, cache, resp) ==
    IF Has(cache, issue_key)
    THEN [ret |-> cache[issue_key], cache |-> cache, req |-> FALSE, raised |-> FALSE]
    ELSE IF RespIn(resp, {200})
    THEN IF resp.json /\ Has(resp.data, "id")
         THEN [ret |-> resp.data.id, cache |-> (issue_key :> resp.data.id),
               req |-> TRUE, raised |-> FALSE]
         ELSE [ret |-> None, cache |-> cache, req |-> TRUE, raised |-> TRUE]
    ELSE [ret |-> None, cache |-> (issue_key :> None),
          req |-> TRUE, raised |-> FALSE]

get_issue_id(issue_key, cache, resp) ==
    IF Has(cache, issue_key)
    THEN [ret |-> cache[issue_key], cache |-> cache, req |-> FALSE, raised |-> FALSE]
    ELSE IF RespIn(resp, {200})
    THEN IF resp.json /\ Has(resp.data, "id")
         THEN [ret |-> resp.data.id, cache |-> Put(cache, issue_key, resp.data.id),
               req |-> TRUE, raised |-> FALSE]
         ELSE [ret |-> None, cache |-> cache, req |-> TRUE, raised |-> TRUE]
    ELSE [ret |-> None, cache |-> Put(cache, issue_key, None),
          req |-> TRUE, raised |-> FALSE]

get_or_create_component_id(project_key, components_map, component_name, resp) ==
    IF component_name = <<>> \/ Strip(component_name) = <<>>
    THEN [ret |-> None, map |-> components_map, req |-> FALSE]
    ELSE LET name == Strip(component_name) IN
         IF Has(components_map, name)
         THEN [ret |-> components_map[name], map |-> components_map, req |-> FALSE]
         ELSE IF RespIn(resp, {200, 201}) /\ resp.json /\ Has(resp.data, "id")
         THEN [ret |-> Str(resp.data.id),
               map |-> Put(components_map, name, Str(resp.data.id)), req |-> TRUE]
         ELSE [ret |-> None, map |-> components_map, req |-> TRUE]

update_issue_component(issue_key, component_id, resp) ==
    IF ~Truthy(component_id)
    THEN [ret |-> TRUE, req |-> FALSE]
    ELSE [ret |-> RespIn(resp, {200, 204}), req |-> TRUE]

\* a get_or_create_version_id that does not record the version it created
get_or_create_version_id_NoInsert(project_id, versions_map, version_name, resp) ==
    IF version_name = <<>> \/ Strip(version_name) = <<>>
       \/ Lower(version_name) = Lower(Unscheduled)
    THEN [ret |-> -1, map |-> versions_map, req |-> FALSE]
    ELSE LET name == Strip(version_name) IN
         IF Has(versions_map, name)
         THEN [ret |-> versions_map[name], map |-> versions_map, req |-> FALSE]
         ELSE IF RespIn(resp, {200, 201}) /\ resp.json /\ Has(resp.data, "id")
         THEN [ret |-> resp.data.id, map |-> versions_map, req |-> TRUE]
         ELSE [ret |-> -1, map |-> versions_map, req |-> TRUE]

get_or_create_version_id(project_id, versions_map, version_name, resp) ==
    IF version_name = <<>> \/ Strip(version_name) = <<>>
       \/ Lower(version_name) = Lower(Unscheduled)
    THEN [ret |-> -1, map |-> versions_map, req |-> FALSE]
    ELSE LET name == Strip(version_name) IN
         IF Has(versions_map, name)
         THEN [ret |-> versions_map[name], map |-> versions_map, req |-> FALSE]
         ELSE IF RespIn(resp, {200, 201}) /\ resp.json /\ Has(resp.data, "id")
         THEN [ret |-> resp.data.id,
               map |-> Put(versions_map, name, resp.data.id), req |-> TRUE]
         ELSE [ret |-> -1, map |-> versions_map, req |-> TRUE]

\* a get_or_create_cycle_id that does not remember a creation that failed
get_or_create_cycle_id_NoNegativeCache(project_id, version_id, cycle_name, cache, resp) ==
    LET name == IF cycle_name = <<>> THEN AdHoc ELSE cycle_name
        key == <<name, version_id>>
    IN  IF Has(cache, key)
        THEN [ret |-> cache[key], cache |-> cache, req |-> FALSE, raised |-> FALSE]
        ELSE IF RespIn(resp, {200, 201})
        THEN IF ~resp.json
             THEN [ret |-> None, cache |-> cache, req |-> TRUE, raised |-> TRUE]
             ELSE LET cid == Str(Or(Get(resp.data, "id"), Get(resp.data, "cycleId")))
                  IN  [ret |-> cid, cache |-> Put(cache, key, cid),
                       req |-> TRUE, raised |-> FALSE]
        ELSE [ret |-> None, cache |-> cache, req |-> TRUE, raised |-> FALSE]

get_or_create_cycle_id(project_id, version_id, cycle_name, cache, resp) ==
    LET name == IF cycle_name = <<>> THEN AdHoc ELSE cycle_name
        key == <<name, version_id>>
    IN  IF Has(cache, key)
        THEN [ret |-> cache[key], cache |-> cache, req |-> FALSE, raised |-> FALSE]
        ELSE IF RespIn(resp, {200, 201})
        THEN IF ~resp.json
             THEN [ret |-> None, cache |-> cache, req |-> TRUE, raised |-> TRUE]
             ELSE LET cid == Str(Or(Get(resp.data, "id"), Get(resp.data, "cycleId")))
                  IN  [ret |-> cid, cache |-> Put(cache, key, cid),
                       req |-> TRUE, raised |-> FALSE]
        ELSE [ret |-> None, cache |-> Put(cache, key, None),
              req |-> TRUE, raised |-> FALSE]

\* f.get("name", "")
FolderName(f) == IF Has(f, "name") THEN f.name ELSE <<>>

\* a FindFolder that compares the names as they are written
FindFolder_Exact(folders, folder_name) ==
    LET hits == {i \in DOMAIN folders : FolderName(folders[i]) = folder_name}
    IN  IF hits = {} THEN None
        ELSE Str(Get(folders[CHOOSE i \in hits : \A j \in hits : i <= j], "id"))

\* the first listed folder whose name equals folder_name up to case and
\* surrounding whitespace, as str(f.get("id")); None when there is none
FindFolder(folders, folder_name) ==
    LET hits == {i \in DOMAIN folders :
                   Lower(Strip(FolderName(folders[i]))) = Lower(Strip(folder_name))}
    IN  IF hits = {} THEN None
        ELSE Str(Get(folders[CHOOSE i \in hits : \A j \in hits : i <= j], "id"))

get_or_create_folder_id(project_id, version_id, cycle_id, folder_name, cache, folders_cache, listResp, createResp) ==
    IF folder_name = <<>> \/ Strip(folder_name) = <<>>
    THEN [ret |-> None, cache |-> cache, folders |-> folders_cache,
          listed |-> FALSE, req |-> FALSE]
    ELSE LET key == <<folder_name, project_id, version_id, cycle_id>>
             list_key == <<project_id, version_id, cycle_id>>
         IN
         IF Has(cache, key)
         THEN [ret |-> cache[key], cache |-> cache, folders |-> folders_cache,
               listed |-> FALSE, req |-> FALSE]
         ELSE LET listed == ~Has(folders_cache, list_key)
                  fc1 == IF listed
                         THEN Put(folders_cache, list_key,
                                  IF RespIn(listResp, {200}) /\ listResp.json
                                  THEN listResp.data ELSE <<>>)
                         ELSE folders_cache
                  found == FindFolder(fc1[list_key], folder_name)
                  create == ~Truthy(found)
                  parsed == create /\ RespIn(createResp, {200, 201}) /\ createResp.json
                  folder_id == IF parsed
                               THEN Str(Or(Get(createResp.data, "id"),
                                           Get(createResp.data, "folderId")))
                               ELSE found
                  fc2 == IF parsed
                         THEN Put(fc1, list_key, Append(fc1[list_key], createResp.data))
                         ELSE fc1
              IN  [ret |-> folder_id, cache |-> Put(cache, key, folder_id),
                   folders |-> fc2, listed |-> listed, req |-> create]

NumericIds == {"10001", "10002"}

\* int(issue_id) succeeds
IsNumeric(x) == x \in NumericIds

\* a create_execution that reads the id only at the top level of the answer
create_execution_IdOnly(project_id, version_id, cycle_id, folder_id, issue_id, resp) ==
    IF ~IsNumeric(issue_id)
    THEN [ret |-> None, req |-> FALSE, raised |-> TRUE, body |-> NoFields]
    ELSE LET base == [issueId |-> issue_id, projectId |-> project_id,
                      versionId |-> version_id, cycleId |-> cycle_id]
             body == IF Truthy(folder_id) THEN ("folderId" :> folder_id) @@ base
                     ELSE base
             exec_id == IF RespIn(resp, {200, 201}) /\ resp.json
                        THEN Get(resp.data, "id")
                        ELSE None
         IN  [ret |-> IF Truthy(exec_id) THEN Str(exec_id) ELSE None,
              req |-> TRUE, raised |-> FALSE, body |-> body]

create_execution(project_id, version_id, cycle_id, folder_id, issue_id, resp) ==
    IF ~IsNumeric(issue_id)
    THEN [ret |-> None, req |-> FALSE, raised |-> TRUE, body |-> NoFields]
    ELSE LET base == [issueId |-> issue_id, projectId |-> project_id,
                      versionId |-> version_id, cycleId |-> cycle_id]
             body == IF Truthy(folder_id) THEN ("folderId" :> folder_id) @@ base
                     ELSE base
             exec_id == IF RespIn(resp, {200, 201}) /\ resp.json
                        THEN Or(IF Has(resp.data, "execution")
                                THEN Get(resp.data.execution, "id") ELSE None,
                                Get(resp.data, "id"))
                        ELSE None
         IN  [ret |-> IF Truthy(exec_id) THEN Str(exec_id) ELSE None,
              req |-> TRUE, raised |-> FALSE, body |-> body]

add_execution_comment(execution_id, comment_text, resp) ==
    IF comment_text = <<>> \/ Strip(comment_text) = <<>>
    THEN [ret |-> TRUE, req |-> FALSE]
    ELSE [ret |-> RespIn(resp, {200, 201}), req |-> TRUE]

\* a delete_execution that addresses the issue instead of the execution
delete_execution_ByIssue(execution_id, issue_id, resp) ==
    [ret |-> RespTruthy(resp) /\ resp.code \in {200, 204}, req |-> TRUE,
     path |-> issue_id]

delete_execution(execution_id, issue_id, resp) ==
    [ret |-> RespTruthy(resp) /\ resp.code \in {200, 204}, req |-> TRUE,
     path |-> execution_id]

UpperChar(c) == IF c \in DOMAIN UpperOf THEN UpperOf[c] ELSE c

\* s.upper()
Upper(s) == [i \in DOMAIN s |-> UpperChar(s[i])]

STATUS_MAP ==
    (<<"P","A","S","S">> :> 1) @@ (<<"F","A","I","L">> :> 2)
    @@ (<<"W","I","P">> :> 3) @@ (<<"B","L","O","C","K","E","D">> :> 4)
    @@ (<<"U","N","E","X","E","C","U","T","E","D">> :> -1)

\* the table consulted with the status text as it stands
StatusKey_Exact(status) ==
    IF Has(STATUS_MAP, status) THEN STATUS_MAP[status] ELSE -1

\* STATUS_MAP.get(status.upper(), -1)
StatusKey(status) ==
    IF Has(STATUS_MAP, Upper(status)) THEN STATUS_MAP[Upper(status)] ELSE -1

\* the request body of the status update (executedOn, which no caller reads
\* back, is left out)
execute_execution(execution_id, issue_id, project_id, version_id, cycle_id, exec_data, executed_by_id, assigned_to_id, resp) ==
    LET base == [status |-> StatusKey(exec_data.status), projectId |-> project_id,
                 versionId |-> version_id, cycleId |-> cycle_id, issueId |-> issue_id]
        b1 == IF Truthy(executed_by_id) THEN ("executedBy" :> executed_by_id) @@ base
              ELSE base
        b2 == IF Truthy(assigned_to_id) THEN ("assignedTo" :> assigned_to_id) @@ b1
              ELSE b1
    IN  [ret |-> RespIn(resp, {200, 204}), req |-> TRUE, path |-> execution_id,
         body |-> b2]

\* the steps the listing yields: the JSON list, or none on any failure
get_existing_test_steps(project_id, issue_id, resp) ==
    IF RespIn(resp, {200}) /\ resp.json THEN resp.data ELSE <<>>

\* sync_steps_for_issue: the number of creation requests it issues
sync_steps_for_issue(project_id, issue_id, issue_key, steps, listResp) ==
    IF steps = <<>>
    THEN [listed |-> FALSE, creates |-> 0]
    ELSE IF get_existing_test_steps(project_id, issue_id, listResp) # <<>>
    THEN [listed |-> TRUE, creates |-> 0]
    ELSE [listed |-> TRUE, creates |-> Len(steps)]

\* the first directory entry whose display name equals original up to case
FindUser(all_users, original) ==
    LET hits == {i \in DOMAIN all_users :
                   Lower(normalize_whitespace(all_users[i].displayName))
                     = Lower(original)}
    IN  IF hits = {} THEN None
        ELSE all_users[CHOOSE i \in hits : \A j \in hits : i <= j].accountId

get_user_account_id(name, cache, user_mapping, all_users) ==
    IF name = <<>>
    THEN [ret |-> None, cache |-> cache]
    ELSE LET original == normalize_user_name(name)
             account_id ==
                 IF Has(user_mapping, original) THEN user_mapping[original]
                 ELSE IF Has(user_mapping, name) THEN user_mapping[name]
                 ELSE FindUser(all_users, original)
         IN  IF Has(cache, original)
             THEN [ret |-> cache[original], cache |-> cache]
             ELSE [ret |-> account_id, cache |-> Put(cache, original, account_id)]

(***************************************************************************)
(* Bounds and input domains                                                *)
(***************************************************************************)
MaxRecords == 2

\* "GCTEST-" followed by five digits
Key(a, b, c, d, e) == <<"G","C","T","E","S","T","-">> \o <<a, b, c, d, e>>

FAILED_ISSUE_KEYS ==
    {Key("9","4","8","0","8"), Key("9","5","3","9","2"), Key("9","5","3","9","7"),
     Key("9","6","4","3","7"), Key("9","4","7","2","2"), Key("9","5","9","3","7")}

\* the --target-project-key of the run
target_project_key == "GCTEST"

\* the issue keys of the records of a run, and the ids Jira has for them
K1 == Key("9","4","8","0","8")
K2 == Key("9","5","3","9","2")
IssueKeys == {K1, K2}
IssueIdOf == (K1 :> "10001") @@ (K2 :> "10002")

V1 == <<"v","1">>
UI == <<"U","I">>
FolderA == <<"R","e","g">>
Jane == <<"J","a","n","e"," ","D","o","e">>
JaneInactive == Jane \o <<" ">> \o MarkerCap
Zed == <<"Z","e","d">>
Amy == <<"A","m","y">>
Pass == <<"P","a","s","s">>
Sprint1 == <<"S","1">>
Retest == <<"o","k">>
Open == <<"g","o">>

\* the test steps the server holds for each issue before the run
ExistingSteps == (K1 :> 0) @@ (K2 :> 1)

\* a step record as load_executions_from_csv builds it
Step(t) == [step |-> t, data |-> <<>>, result |-> <<>>]

\* the records load_executions_from_csv can hand to the loop: every text
\* field is stripped, and cycle, version and status are never empty
Bare(k) ==
    [issue_key |-> k, cycle_name |-> Sprint1, folder_name |-> <<>>,
     version_name |-> Unscheduled, component_name |-> <<>>, status |-> Pass,
     executed_on |-> <<>>, executed_by |-> <<>>, assigned_to |-> <<>>,
     comment |-> <<>>, steps |-> <<>>]

Full(k) ==
    [issue_key |-> k, cycle_name |-> Sprint1, folder_name |-> FolderA,
     version_name |-> V1, component_name |-> UI, status |-> Pass,
     executed_on |-> <<>>, executed_by |-> JaneInactive, assigned_to |-> Zed,
     comment |-> Retest, steps |-> <<Step(Open)>>]

\* a record with none of the optional fields, with each of them alone, and
\* with all of them
RecordSet ==
    UNION {{Bare(k), Full(k),
            [Bare(k) EXCEPT !.folder_name = FolderA],
            [Bare(k) EXCEPT !.version_name = V1],
            [Bare(k) EXCEPT !.component_name = UI],
            [Bare(k) EXCEPT !.executed_by = JaneInactive, !.assigned_to = Amy],
            [Bare(k) EXCEPT !.comment = Retest],
            [Bare(k) EXCEPT !.steps = <<Step(Open)>>]}
           : k \in IssueKeys}

(***************************************************************************)
(* State of migrate_executions                                             *)
(***************************************************************************)
VARIABLES
    pc,                      \* the statement of migrate_executions that runs next
    total, idx, exec_data,   \* len(executions), the loop index, the current record
    project_id, user_mapping, versions_map, components_map, all_users,
    issue_id_cache, cycle_cache, folder_cache, folders_cache, user_cache,
    steps_created_for_issue,
    created, failed, failed_items,
    issue_id, version_id, cycle_id, folder_id,
    executed_by_id, assigned_to_id, new_exec_id, ok,
    next_id,                 \* server side: the next identifier of each kind
    server_steps,            \* server side: the number of test steps of each issue
    ops,                     \* the calls made for the current record, in order
    step_syncs,              \* every sync_steps_for_issue call of the run
    sleeps,                  \* the number of rate-limit sleeps so far
    report,                  \* what generate_failure_report wrote, if it ran
    crash_at,                \* where an exception left migrate_executions
    remote_ok,               \* every remote call of the run so far was served
    lookups                  \* the lookup requests of the run so far, per key

\* one call of jira_request or zephyr_request
VARIABLES
    req_client,              \* "jira" or "zephyr"
    req_max_retries,
    req_attempt,             \* the loop variable attempt
    req_pc,                  \* "idle", "attempt", "sleep" or "returned"
    req_log,                 \* the outcome of each attempt so far
    req_waits,               \* the argument of each time.sleep so far
    req_result               \* what the call returned

\* one call of load_executions_from_csv
VARIABLES
    csv_header,              \* the column names of the file
    csv_rows,                \* its data rows, each a sequence of cells
    row_i,                   \* the number of rows read so far
    executions               \* the ordered dictionary being built

\* a series of calls of the get-or-create resolvers, of get_user_account_id,
\* or of execute_execution
VARIABLES
    calls,                   \* the number of calls so far
    resolved,                \* (resolver, name, scope) -> the first identifier returned
    last_call                \* the latest call and what it returned

setupVars == <<total, project_id, user_mapping, versions_map, components_map, all_users>>
cacheVars == <<issue_id_cache, cycle_cache, folder_cache, folders_cache, user_cache,
               steps_created_for_issue>>
countVars == <<created, failed, failed_items>>
localVars == <<issue_id, version_id, cycle_id, folder_id,
               executed_by_id, assigned_to_id, new_exec_id, ok>>
envVars == <<next_id, server_steps, step_syncs, sleeps, report, crash_at>>
mainVars == <<pc, idx, exec_data, ops, setupVars, cacheVars, countVars, localVars, envVars,
              remote_ok, lookups>>
reqVars == <<req_client, req_max_retries, req_attempt, req_pc, req_log, req_waits,
             req_result>>
loadVars == <<csv_header, csv_rows, row_i, executions>>
resolveVars == <<calls, resolved, last_call>>
unitVars == <<reqVars, loadVars, resolveVars>>
vars == <<mainVars, unitVars>>

NoRecord == [issue_key |-> <<>>]

Op(name, id) == [op |-> name, id |-> id]

FreshId(kind) == kind \o "-" \o ToString(next_id[kind])

\* a remote call was answered: the run stays served as long as every answer
\* is the one the call is made for
Answered(good) == remote_ok' = (remote_ok /\ good)

\* a 2xx answer with the identifier; a 200 answer with a JSON listing
GoodId(resp) == RespTruthy(resp) /\ resp.json /\ Has(resp.data, "id")
GoodList(resp) == RespIn(resp, {200}) /\ resp.json

\* no lookup has been made: issue and cycle count the issue fetches and the
\* cycle creations per cache key, issue_failed and cycle_failed hold the keys
\* whose lookup has returned no identifier; listings counts the folder
\* listings per scope, listed holds the (scope, name) of every folder a
\* listing has returned, create_reqs and created_folders count per
\* (scope, name) the creation requests and the folders the server created,
\* names taken up to case and surrounding whitespace
NoLookups == [issue |-> EmptyDict, cycle |-> EmptyDict,
              issue_failed |-> {}, cycle_failed |-> {},
              listings |-> EmptyDict, listed |-> {},
              create_reqs |-> EmptyDict, created_folders |-> EmptyDict]

Bump(counts, k) == Put(counts, k, (IF Has(counts, k) THEN counts[k] ELSE 0) + 1)

\* get_issue_id returned for issue_key: req says that it sent the fetch,
\* absent that it returned None
IssueLooked(issue_key, req, absent) ==
    lookups' = [lookups EXCEPT
                  !.issue = IF req THEN Bump(@, issue_key) ELSE @,
                  !.issue_failed = IF absent THEN @ \cup {issue_key} ELSE @]

\* get_or_create_cycle_id returned for the cache key (cycle name, version id)
CycleLooked(cycle_name, vid, req, absent) ==
    LET key == <<IF cycle_name = <<>> THEN AdHoc ELSE cycle_name, vid>> IN
    lookups' = [lookups EXCEPT
                  !.cycle = IF req THEN Bump(@, key) ELSE @,
                  !.cycle_failed = IF absent THEN @ \cup {key} ELSE @]

\* get_or_create_folder_id returned for folder_name in scope: r is its
\* result, listResp and createResp the answers of the server
FolderLooked(scope, folder_name, r, listResp, createResp) ==
    LET key == <<scope, Lower(Strip(folder_name))>>
        got == IF r.listed /\ RespIn(listResp, {200}) /\ listResp.json
               THEN {<<scope, Lower(Strip(FolderName(listResp.data[i])))>> :
                       i \in DOMAIN listResp.data}
               ELSE {}
    IN  lookups' = [lookups EXCEPT
                      !.listings = IF r.listed THEN Bump(@, scope) ELSE @,
                      !.listed = @ \cup got,
                      !.create_reqs = IF r.req THEN Bump(@, key) ELSE @,
                      !.created_folders =
                          IF r.req /\ RespTruthy(createResp) /\ createResp.json
                             /\ Has(createResp.data, "id")
                          THEN Bump(@, key) ELSE @]

\* the server issued the identifier it was asked for
Issued(kind, used) ==
    next_id' = IF used THEN [next_id EXCEPT ![kind] = @ + 1] ELSE next_id

\* no client call, no CSV load and no resolver series is under way
ReqIdle ==
    /\ req_client = "jira" /\ req_max_retries = 0 /\ req_attempt = 0
    /\ req_pc = "idle" /\ req_log = <<>> /\ req_waits = <<>>
    /\ req_result = NoResponse

LoadIdle ==
    /\ csv_header = <<>> /\ csv_rows = <<>> /\ row_i = 0 /\ executions = <<>>

NoCall == [kind |-> "none", known |-> FALSE, first |-> None, ret |-> None,
           req |-> FALSE]

ResolveIdle ==
    /\ calls = 0 /\ resolved = EmptyDict /\ last_call = NoCall

\* retry_failed_executions.csv while nothing has been written to it
NoFile == [written |-> FALSE, fieldnames |-> {}, rows |-> <<>>]

\* the state of migrate_executions before its first statement, but for the
\* project id and the two maps that the setup fetches
LoopInit ==
    /\ total = 0 /\ idx = 0 /\ exec_data = NoRecord
    /\ user_mapping = EmptyDict
    /\ all_users = <<>>
    /\ issue_id_cache = EmptyDict
    /\ cycle_cache = EmptyDict
    /\ folder_cache = EmptyDict
    /\ folders_cache = EmptyDict
    /\ user_cache = EmptyDict
    /\ steps_created_for_issue = {}
    /\ created = 0 /\ failed = 0 /\ failed_items = <<>>
    /\ issue_id = None /\ version_id = 0 /\ cycle_id = None /\ folder_id = None
    /\ executed_by_id = None /\ assigned_to_id = None /\ new_exec_id = None
    /\ ok = FALSE
    /\ next_id = [k \in {"comp", "cyc", "fold", "exec", "ver"} |-> 1]
    /\ server_steps = ExistingSteps
    /\ ops = <<>>
    /\ step_syncs = <<>>
    /\ sleeps = 0
    /\ report = NoFile
    /\ crash_at = None
    /\ remote_ok = TRUE
    /\ lookups = NoLookups

MainInit ==
    /\ pc = "user_mapping"
    /\ project_id = 0
    /\ versions_map = EmptyDict
    /\ components_map = EmptyDict
    /\ LoopInit

Init == MainInit /\ ReqIdle /\ LoadIdle /\ ResolveIdle

\* an exception propagates out of migrate_executions
Crash ==
    /\ pc' = "crashed"
    /\ crash_at' = pc

(***************************************************************************)
(* Setup of migrate_executions (lines 688-718)                             *)
(***************************************************************************)
recVars == <<idx, exec_data, ops, cacheVars, countVars, localVars>>
srvVars == <<next_id, server_steps, step_syncs, sleeps, report>>

\* the operator's mapping file: one entry, keyed by a raw name
UserMappingFile == (Zed :> "acc-zed")

LoadUserMapping ==
    /\ pc = "user_mapping"
    /\ UNCHANGED unitVars
    /\ UNCHANGED lookups
    /\ UNCHANGED remote_ok
    /\ user_mapping' = UserMappingFile
    /\ pc' = "project"
    /\ UNCHANGED <<total, project_id, versions_map, components_map, all_users,
                   recVars, srvVars, crash_at>>

\* get_project_id going on without a project instead of exiting
GetProjectId_NoExit ==
    /\ pc = "project"
    /\ UNCHANGED unitVars
    /\ UNCHANGED lookups
    /\ \E resp \in FailureResponses \cup {IdResponse(200, 10000)}
                     \cup MalformedResponses(200) :
          /\ Answered(GoodId(resp))
          /\ IF RespIn(resp, {200})
             THEN IF resp.json /\ Has(resp.data, "id")
                  THEN /\ project_id' = resp.data.id
                       /\ pc' = "versions"
                       /\ UNCHANGED crash_at
                  ELSE Crash /\ UNCHANGED project_id
             ELSE /\ pc' = "versions"
                  /\ UNCHANGED <<project_id, crash_at>>
    /\ UNCHANGED <<total, user_mapping, versions_map, components_map, all_users,
                   recVars, srvVars>>

\* get_project_id: the id of a 200 answer, else sys.exit(1)
GetProjectId ==
    /\ pc = "project"
    /\ UNCHANGED unitVars
    /\ UNCHANGED lookups
    /\ \E resp \in FailureResponses \cup {IdResponse(200, 10000)}
                     \cup MalformedResponses(200) :
          /\ Answered(GoodId(resp))
          /\ IF RespIn(resp, {200})
             THEN IF resp.json /\ Has(resp.data, "id")
                  THEN /\ project_id' = resp.data.id
                       /\ pc' = "versions"
                       /\ UNCHANGED crash_at
                  ELSE Crash /\ UNCHANGED project_id
             ELSE /\ pc' = "exited"
                  /\ UNCHANGED <<project_id, crash_at>>
    /\ UNCHANGED <<total, user_mapping, versions_map, components_map, all_users,
                   recVars, srvVars>>

\* the name -> id mapping of a listing of objects with name and id
ListingMap(data) == [n \in {data[i].name : i \in DOMAIN data} |->
                        data[CHOOSE i \in DOMAIN data :
                               /\ data[i].name = n
                               /\ \A j \in DOMAIN data : data[j].name = n => j <= i].id]

VersionListings == {<<>>, <<[name |-> V1, id |-> 7]>>}
ComponentListings == {<<>>}

\* get_versions_map: the listed versions, and always Unscheduled -> -1
GetVersionsMap ==
    /\ pc = "versions"
    /\ UNCHANGED unitVars
    /\ UNCHANGED lookups
    /\ \E resp \in FailureResponses \cup {Resp(200, TRUE, l) : l \in VersionListings}
                     \cup {Resp(200, FALSE, <<>>)} :
          /\ Answered(GoodList(resp))
          /\ IF RespIn(resp, {200}) /\ ~resp.json
             THEN Crash /\ UNCHANGED versions_map
             ELSE /\ versions_map' =
                       Put(IF RespIn(resp, {200}) THEN ListingMap(resp.data) ELSE EmptyDict,
                           Unscheduled, -1)
                  /\ pc' = "components"
                  /\ UNCHANGED crash_at
    /\ UNCHANGED <<total, project_id, user_mapping, components_map, all_users,
                   recVars, srvVars>>

GetComponentsMap ==
    /\ pc = "components"
    /\ UNCHANGED unitVars
    /\ UNCHANGED lookups
    /\ \E resp \in FailureResponses \cup {Resp(200, TRUE, l) : l \in ComponentListings}
                     \cup {Resp(200, FALSE, <<>>)} :
          /\ Answered(GoodList(resp))
          /\ IF RespIn(resp, {200}) /\ ~resp.json
             THEN Crash /\ UNCHANGED components_map
             ELSE /\ components_map' =
                       (IF RespIn(resp, {200}) THEN ListingMap(resp.data) ELSE EmptyDict)
                  /\ pc' = "load_csv"
                  /\ UNCHANGED crash_at
    /\ UNCHANGED <<total, project_id, user_mapping, versions_map, all_users,
                   recVars, srvVars>>

\* executions = load_executions_from_csv(...); total = len(executions)
LoadCsv ==
    /\ pc = "load_csv"
    /\ UNCHANGED unitVars
    /\ UNCHANGED lookups
    /\ UNCHANGED remote_ok
    /\ total' \in 0..MaxRecords
    /\ pc' = "all_users"
    /\ UNCHANGED <<project_id, user_mapping, versions_map, components_map, all_users,
                   recVars, srvVars, crash_at>>

Directory == <<[displayName |-> Lower(Jane), accountId |-> "acc-jane"]>>

\* get_all_users: the pages of the directory, concatenated
GetAllUsers ==
    /\ pc = "all_users"
    /\ UNCHANGED unitVars
    /\ UNCHANGED lookups
    /\ UNCHANGED remote_ok
    /\ all_users' = Directory
    /\ pc' = "loop"
    /\ UNCHANGED <<total, project_id, user_mapping, versions_map, components_map,
                   recVars, srvVars, crash_at>>

(***************************************************************************)
(* The loop of migrate_executions (lines 720-797), one action per step     *)
(***************************************************************************)
\* {**exec_data, "failure_reason": reason}
FailureItem(reason) == ("failure_reason" :> reason) @@ exec_data

\* the failure bookkeeping without its continue: the record carries on with
\* the step that follows
FailRecord_NoContinue(reason) ==
    /\ failed' = failed + 1
    /\ failed_items' = Append(failed_items, FailureItem(reason))
    /\ pc' = CASE pc = "issue" -> "component"
              [] pc = "cycle" -> "folder"
              [] pc = "create" -> "execute"
    /\ UNCHANGED created

\* failed += 1; failed_items.append(...); continue
FailRecord(reason) ==
    /\ failed' = failed + 1
    /\ failed_items' = Append(failed_items, FailureItem(reason))
    /\ pc' = "loop"
    /\ UNCHANGED created

\* for idx, (exec_id, exec_data) in enumerate(executions.items(), start=1)
NextRecord ==
    /\ pc = "loop"
    /\ UNCHANGED unitVars
    /\ UNCHANGED lookups
    /\ UNCHANGED remote_ok
    /\ \/ /\ idx < total
          /\ idx' = idx + 1
          /\ exec_data' \in RecordSet
          /\ ops' = <<>>
          /\ issue_id' = None /\ version_id' = 0 /\ cycle_id' = None
          /\ folder_id' = None /\ executed_by_id' = None /\ assigned_to_id' = None
          /\ new_exec_id' = None /\ ok' = FALSE
          /\ pc' = "issue"
       \/ /\ idx >= total
          /\ pc' = "report"
          /\ UNCHANGED <<idx, exec_data, ops, localVars>>
    /\ UNCHANGED <<setupVars, cacheVars, countVars, envVars>>

IssueResponses(key) ==
    FailureResponses \cup MalformedResponses(200)
    \cup {IdResponse(200, IssueIdOf[key])}

\* lines 725-729
IssueLookup ==
    /\ pc = "issue"
    /\ UNCHANGED unitVars
    /\ \E resp \in IssueResponses(exec_data.issue_key) :
          /\ Answered(Has(issue_id_cache, exec_data.issue_key) \/ GoodId(resp))
          /\ LET r == get_issue_id(exec_data.issue_key, issue_id_cache, resp) IN
             IssueLooked(exec_data.issue_key, r.req, ~r.raised /\ ~Truthy(r.ret))
          /\ LET r == get_issue_id(exec_data.issue_key, issue_id_cache, resp) IN
             IF r.raised
             THEN /\ Crash
                  /\ ops' = Append(ops, Op("issue_lookup", None))
                  /\ UNCHANGED <<issue_id_cache, issue_id, countVars>>
             ELSE /\ issue_id_cache' = r.cache
                  /\ issue_id' = r.ret
                  /\ ops' = Append(ops, Op("issue_lookup", None))
                  /\ IF ~Truthy(r.ret)
                     THEN FailRecord("Issue not found")
                     ELSE pc' = "component" /\ UNCHANGED countVars
                  /\ UNCHANGED crash_at
    /\ UNCHANGED <<idx, exec_data, setupVars, cycle_cache, folder_cache, folders_cache,
                   user_cache, steps_created_for_issue, version_id, cycle_id, folder_id,
                   executed_by_id, assigned_to_id, new_exec_id, ok, srvVars>>

\* lines 731-737
ComponentUpdate ==
    /\ pc = "component"
    /\ UNCHANGED unitVars
    /\ UNCHANGED lookups
    /\ \/ /\ exec_data.component_name = <<>>
          /\ UNCHANGED <<components_map, ops, next_id, remote_ok>>
       \/ /\ exec_data.component_name # <<>>
          /\ \E resp \in FailureResponses \cup MalformedResponses(201)
                           \cup {IdResponse(201, FreshId("comp"))},
                upd \in FailureResponses \cup {Resp(204, FALSE, NoFields)} :
                LET r == get_or_create_component_id(target_project_key, components_map,
                                                    exec_data.component_name, resp)
                    u == update_issue_component(exec_data.issue_key, r.ret, upd)
                    o1 == Append(ops, Op("component_resolve", None))
                IN  /\ components_map' = r.map
                    /\ Issued("comp", r.req /\ Has(resp.data, "id"))
                    /\ ops' = IF Truthy(r.ret)
                              THEN Append(o1, Op("component_update", None))
                              ELSE o1
                    /\ Answered((~r.req \/ GoodId(resp))
                                /\ (~u.req \/ RespTruthy(upd)))
    /\ pc' = "steps"
    /\ UNCHANGED <<idx, exec_data, total, project_id, user_mapping, versions_map,
                   all_users, cacheVars, countVars, localVars,
                   server_steps, step_syncs, sleeps, report, crash_at>>

\* the listing of an issue's steps as the server has them
StepListing(n) == [i \in 1..n |-> [id |-> i]]

\* lines 739-742; create_test_step answers decide how many steps the server gains
StepsSync ==
    /\ pc = "steps"
    /\ UNCHANGED unitVars
    /\ UNCHANGED lookups
    /\ \/ /\ ~(exec_data.issue_key \notin steps_created_for_issue
               /\ exec_data.steps # <<>>)
          /\ UNCHANGED <<steps_created_for_issue, server_steps, step_syncs, ops,
                         remote_ok>>
       \/ /\ exec_data.issue_key \notin steps_created_for_issue
          /\ exec_data.steps # <<>>
          /\ \E resp \in FailureResponses
                   \cup {Resp(200, TRUE, StepListing(server_steps[exec_data.issue_key])),
                         Resp(200, FALSE, <<>>)} :
                LET r == sync_steps_for_issue(project_id, issue_id, exec_data.issue_key,
                                              exec_data.steps, resp)
                IN  \E stored \in 0..r.creates :
                       /\ server_steps' = [server_steps EXCEPT
                                             ![exec_data.issue_key] = @ + stored]
                       /\ step_syncs' = Append(step_syncs,
                              [issue_key |-> exec_data.issue_key,
                               existing |-> server_steps[exec_data.issue_key],
                               creates |-> r.creates])
                       /\ ops' = Append(ops, Op("steps_sync", None))
                       /\ Answered(GoodList(resp) /\ stored = r.creates)
          /\ steps_created_for_issue' =
                steps_created_for_issue \cup {exec_data.issue_key}
    /\ pc' = "version"
    /\ UNCHANGED <<idx, exec_data, setupVars, issue_id_cache, cycle_cache, folder_cache,
                   folders_cache, user_cache, countVars, localVars,
                   next_id, sleeps, report, crash_at>>

\* line 744
VersionResolve ==
    /\ pc = "version"
    /\ UNCHANGED unitVars
    /\ UNCHANGED lookups
    /\ \E resp \in FailureResponses \cup MalformedResponses(201)
                     \cup {IdResponse(201, 100 + next_id["ver"])} :
          LET r == get_or_create_version_id(project_id, versions_map,
                                            exec_data.version_name, resp)
          IN  /\ versions_map' = r.map
              /\ version_id' = r.ret
              /\ Issued("ver", r.req /\ Has(resp.data, "id"))
              /\ ops' = Append(ops, Op("version_resolve", None))
              /\ Answered(~r.req \/ GoodId(resp))
    /\ pc' = "cycle"
    /\ UNCHANGED <<idx, exec_data, total, project_id, user_mapping, components_map,
                   all_users, cacheVars, countVars, issue_id, cycle_id, folder_id,
                   executed_by_id, assigned_to_id, new_exec_id, ok,
                   server_steps, step_syncs, sleeps, report, crash_at>>

\* lines 745-750 without the test of cycle_id
CycleResolve_Unchecked ==
    /\ pc = "cycle"
    /\ UNCHANGED unitVars
    /\ \E resp \in FailureResponses \cup MalformedResponses(200)
                     \cup {IdResponse(200, FreshId("cyc"))} :
          /\ Answered(~get_or_create_cycle_id(project_id, version_id, exec_data.cycle_name,
                                     cycle_cache, resp).req \/ GoodId(resp))
          /\ LET r == get_or_create_cycle_id(project_id, version_id, exec_data.cycle_name,
                                             cycle_cache, resp)
             IN  CycleLooked(exec_data.cycle_name, version_id, r.req,
                             ~r.raised /\ ~Truthy(r.ret))
          /\ LET r == get_or_create_cycle_id(project_id, version_id, exec_data.cycle_name,
                                             cycle_cache, resp)
             IN  IF r.raised
                 THEN /\ Crash
                      /\ ops' = Append(ops, Op("cycle_resolve", None))
                      /\ UNCHANGED <<cycle_cache, cycle_id, next_id>>
                 ELSE /\ cycle_cache' = r.cache
                      /\ cycle_id' = r.ret
                      /\ Issued("cyc", r.req /\ Has(resp.data, "id"))
                      /\ ops' = Append(ops, Op("cycle_resolve", None))
                      /\ pc' = "folder"
                      /\ UNCHANGED crash_at
    /\ UNCHANGED <<idx, exec_data, setupVars, issue_id_cache, folder_cache, folders_cache,
                   user_cache, steps_created_for_issue, issue_id, version_id, folder_id,
                   executed_by_id, assigned_to_id, new_exec_id, ok, countVars,
                   server_steps, step_syncs, sleeps, report>>

\* lines 745-750
CycleResolve ==
    /\ pc = "cycle"
    /\ UNCHANGED unitVars
    /\ \E resp \in FailureResponses \cup MalformedResponses(200)
                     \cup {IdResponse(200, FreshId("cyc"))} :
          /\ Answered(~get_or_create_cycle_id(project_id, version_id, exec_data.cycle_name,
                                     cycle_cache, resp).req \/ GoodId(resp))
          /\ LET r == get_or_create_cycle_id(project_id, version_id, exec_data.cycle_name,
                                             cycle_cache, resp)
             IN  CycleLooked(exec_data.cycle_name, version_id, r.req,
                             ~r.raised /\ ~Truthy(r.ret))
          /\ LET r == get_or_create_cycle_id(project_id, version_id, exec_data.cycle_name,
                                             cycle_cache, resp)
             IN  IF r.raised
                 THEN /\ Crash
                      /\ ops' = Append(ops, Op("cycle_resolve", None))
                      /\ UNCHANGED <<cycle_cache, cycle_id, countVars, next_id>>
                 ELSE /\ cycle_cache' = r.cache
                      /\ cycle_id' = r.ret
                      /\ Issued("cyc", r.req /\ Has(resp.data, "id"))
                      /\ ops' = Append(ops, Op("cycle_resolve", None))
                      /\ IF ~Truthy(r.ret)
                         THEN FailRecord("Could not create cycle")
                         ELSE pc' = "folder" /\ UNCHANGED countVars
                      /\ UNCHANGED crash_at
    /\ UNCHANGED <<idx, exec_data, setupVars, issue_id_cache, folder_cache, folders_cache,
                   user_cache, steps_created_for_issue, issue_id, version_id, folder_id,
                   executed_by_id, assigned_to_id, new_exec_id, ok,
                   server_steps, step_syncs, sleeps, report>>

\* what the server lists for a scope: nothing, or the folder under another case
FolderListings == {<<>>, <<[name |-> Upper(FolderA), id |-> "fold-0"]>>}

\* lines 752-755
FolderResolve ==
    /\ pc = "folder"
    /\ UNCHANGED unitVars
    /\ \/ /\ exec_data.folder_name = <<>>
          /\ UNCHANGED <<folder_cache, folders_cache, folder_id, ops, next_id,
                         remote_ok, lookups>>
       \/ /\ exec_data.folder_name # <<>>
          /\ \E listResp \in FailureResponses \cup {Resp(200, FALSE, <<>>)}
                               \cup {Resp(200, TRUE, l) : l \in FolderListings},
                createResp \in FailureResponses \cup MalformedResponses(200)
                    \cup {Resp(200, TRUE, [id |-> FreshId("fold"),
                                           name |-> exec_data.folder_name])} :
                LET r == get_or_create_folder_id(project_id, version_id, cycle_id,
                            exec_data.folder_name, folder_cache, folders_cache,
                            listResp, createResp)
                IN  /\ folder_cache' = r.cache
                    /\ folders_cache' = r.folders
                    /\ folder_id' = r.ret
                    /\ Issued("fold", r.req /\ Has(createResp.data, "id"))
                    /\ ops' = Append(ops, Op("folder_resolve", None))
                    /\ Answered((~r.listed \/ GoodList(listResp))
                                /\ (~r.req \/ GoodId(createResp)))
                    /\ FolderLooked(<<project_id, version_id, cycle_id>>,
                                    exec_data.folder_name, r, listResp, createResp)
    /\ pc' = "users"
    /\ UNCHANGED <<idx, exec_data, setupVars, issue_id_cache, cycle_cache, user_cache,
                   steps_created_for_issue, countVars, issue_id, version_id, cycle_id,
                   executed_by_id, assigned_to_id, new_exec_id, ok,
                   server_steps, step_syncs, sleeps, report, crash_at>>

\* lines 757-766
ResolveUsers ==
    /\ pc = "users"
    /\ UNCHANGED unitVars
    /\ UNCHANGED lookups
    /\ UNCHANGED remote_ok
    /\ LET e == get_user_account_id(exec_data.executed_by, user_cache,
                                    user_mapping, all_users)
           a == get_user_account_id(exec_data.assigned_to, e.cache,
                                    user_mapping, all_users)
       IN  /\ executed_by_id' = e.ret
           /\ assigned_to_id' = a.ret
           /\ user_cache' = a.cache
    /\ pc' = "create"
    /\ UNCHANGED <<idx, exec_data, ops, setupVars, issue_id_cache, cycle_cache,
                   folder_cache, folders_cache, steps_created_for_issue, countVars,
                   issue_id, version_id, cycle_id, folder_id, new_exec_id, ok, envVars>>

\* lines 768-773
CreateExecution ==
    /\ pc = "create"
    /\ UNCHANGED unitVars
    /\ UNCHANGED lookups
    /\ \E resp \in FailureResponses \cup MalformedResponses(200)
                     \cup {IdResponse(200, FreshId("exec")),
                           Resp(200, TRUE, [execution |-> [id |-> FreshId("exec")]])} :
          /\ Answered(~IsNumeric(issue_id) \/ GoodId(resp)
                      \/ (RespTruthy(resp) /\ resp.json /\ Has(resp.data, "execution")))
          /\ LET r == create_execution(project_id, version_id, cycle_id, folder_id,
                                       issue_id, resp)
             IN  IF r.raised
                 THEN /\ Crash
                      /\ UNCHANGED <<new_exec_id, ops, countVars, next_id>>
                 ELSE /\ new_exec_id' = r.ret
                      /\ Issued("exec", Truthy(r.ret))
                      /\ ops' = Append(ops, Op("execution_create", r.ret))
                      /\ IF ~Truthy(r.ret)
                         THEN FailRecord("Could not create execution")
                         ELSE pc' = "execute" /\ UNCHANGED countVars
                      /\ UNCHANGED crash_at
    /\ UNCHANGED <<idx, exec_data, setupVars, cacheVars, issue_id, version_id, cycle_id,
                   folder_id, executed_by_id, assigned_to_id, ok,
                   server_steps, step_syncs, sleeps, report>>

\* lines 775-778 with the comment branch taken whatever ok is
ExecuteExecution_AlwaysComment ==
    /\ pc = "execute"
    /\ UNCHANGED unitVars
    /\ UNCHANGED lookups
    /\ \E resp \in FailureResponses \cup {Resp(200, TRUE, NoFields)} :
          /\ Answered(RespTruthy(resp))
          /\ LET r == execute_execution(new_exec_id, issue_id, project_id, version_id,
                                        cycle_id, exec_data, executed_by_id,
                                        assigned_to_id, resp)
             IN  /\ ok' = r.ret
                 /\ ops' = Append(ops, Op("status_update", r.path))
                 /\ pc' = "comment"
    /\ UNCHANGED <<idx, exec_data, setupVars, cacheVars, countVars, issue_id, version_id,
                   cycle_id, folder_id, executed_by_id, assigned_to_id, new_exec_id,
                   envVars>>

\* lines 775-778: ok = execute_execution(...)
ExecuteExecution ==
    /\ pc = "execute"
    /\ UNCHANGED unitVars
    /\ UNCHANGED lookups
    /\ \E resp \in FailureResponses \cup {Resp(200, TRUE, NoFields)} :
          /\ Answered(RespTruthy(resp))
          /\ LET r == execute_execution(new_exec_id, issue_id, project_id, version_id,
                                        cycle_id, exec_data, executed_by_id,
                                        assigned_to_id, resp)
             IN  /\ ok' = r.ret
                 /\ ops' = Append(ops, Op("status_update", r.path))
                 /\ pc' = IF r.ret THEN "comment" ELSE "delete"
    /\ UNCHANGED <<idx, exec_data, setupVars, cacheVars, countVars, issue_id, version_id,
                   cycle_id, folder_id, executed_by_id, assigned_to_id, new_exec_id,
                   envVars>>

\* lines 779-788: the branch of a successful status update
AddComment ==
    /\ pc = "comment"
    /\ UNCHANGED unitVars
    /\ UNCHANGED lookups
    /\ \/ /\ exec_data.comment = <<>>
          /\ UNCHANGED <<ops, remote_ok>>
       \/ /\ exec_data.comment # <<>>
          /\ \E resp \in FailureResponses \cup {Resp(201, TRUE, NoFields)} :
                LET r == add_execution_comment(new_exec_id, exec_data.comment, resp)
                IN  /\ ops' = IF r.req THEN Append(ops, Op("comment", new_exec_id))
                              ELSE ops
                    /\ Answered(~r.req \/ RespTruthy(resp))
    /\ created' = created + 1
    /\ pc' = "sleep"
    /\ UNCHANGED <<idx, exec_data, setupVars, cacheVars, failed, failed_items,
                   localVars, envVars>>

\* lines 789-795 with the record counted failed only if the delete succeeded
DeleteExecution_CountIfDeleted ==
    /\ pc = "delete"
    /\ UNCHANGED unitVars
    /\ UNCHANGED lookups
    /\ \E resp \in FailureResponses \cup {Resp(204, FALSE, NoFields)} :
          /\ Answered(RespTruthy(resp))
          /\ LET r == delete_execution(new_exec_id, issue_id, resp)
             IN  /\ ops' = Append(ops, Op("delete", r.path))
                 /\ failed' = IF r.ret THEN failed + 1 ELSE failed
                 /\ failed_items' =
                       IF r.ret
                       THEN Append(failed_items,
                                   ("execution_id" :> new_exec_id)
                                   @@ FailureItem("Could not execute execution (deleted)"))
                       ELSE failed_items
    /\ pc' = "sleep"
    /\ UNCHANGED <<idx, exec_data, setupVars, cacheVars, created, localVars, envVars>>

\* lines 789-795: the branch of a failed status update
DeleteExecution ==
    /\ pc = "delete"
    /\ UNCHANGED unitVars
    /\ UNCHANGED lookups
    /\ \E resp \in FailureResponses \cup {Resp(204, FALSE, NoFields)} :
          /\ Answered(RespTruthy(resp))
          /\ LET r == delete_execution(new_exec_id, issue_id, resp)
             IN  ops' = Append(ops, Op("delete", r.path))
    /\ failed' = failed + 1
    /\ failed_items' = Append(failed_items,
          ("execution_id" :> new_exec_id)
          @@ FailureItem("Could not execute execution (deleted)"))
    /\ pc' = "sleep"
    /\ UNCHANGED <<idx, exec_data, setupVars, cacheVars, created, localVars, envVars>>

\* line 797: time.sleep(cfg.rate_limit_delay)
RateLimitSleep ==
    /\ pc = "sleep"
    /\ UNCHANGED unitVars
    /\ UNCHANGED lookups
    /\ UNCHANGED remote_ok
    /\ sleeps' = sleeps + 1
    /\ pc' = "loop"
    /\ UNCHANGED <<idx, exec_data, ops, setupVars, cacheVars, countVars, localVars,
                   next_id, server_steps, step_syncs, report, crash_at>>

\* generate_failure_report: the rows it writes under the sorted union of the
\* items' keys; nothing is written for an empty list
generate_failure_report(items) ==
    IF items = <<>> THEN NoFile
    ELSE [written |-> TRUE,
          fieldnames |-> UNION {DOMAIN items[i] : i \in DOMAIN items},
          rows |-> items]

\* lines 799-809
Report ==
    /\ pc = "report"
    /\ UNCHANGED unitVars
    /\ UNCHANGED lookups
    /\ UNCHANGED remote_ok
    /\ report' = IF failed_items # <<>> THEN generate_failure_report(failed_items)
                 ELSE NoFile
    /\ pc' = "done"
    /\ UNCHANGED <<idx, exec_data, ops, setupVars, cacheVars, countVars, localVars,
                   next_id, server_steps, step_syncs, sleeps, crash_at>>

Next ==
    \/ LoadUserMapping \/ GetProjectId \/ GetVersionsMap \/ GetComponentsMap
    \/ LoadCsv \/ GetAllUsers
    \/ NextRecord \/ IssueLookup \/ ComponentUpdate \/ StepsSync \/ VersionResolve
    \/ CycleResolve \/ FolderResolve \/ ResolveUsers \/ CreateExecution
    \/ ExecuteExecution \/ AddComment \/ DeleteExecution \/ RateLimitSleep \/ Report

Spec == Init /\ [][Next]_vars

(***************************************************************************)
(* jira_request and zephyr_request (lines 109-154): one call, attempt by   *)
(* attempt.  An attempt ends in an HTTP response or in an exception of     *)
(* requests; ConnectTimeout is both a ConnectionError and a Timeout.       *)
(***************************************************************************)
MaxRetries == 3

Clients == {"jira", "zephyr"}

Exceptions == {"ReadTimeout", "ConnectTimeout", "ConnectionError", "TooManyRedirects"}

\* isinstance(e, requests.exceptions.Timeout)
IsTimeout(e) == e \in {"ReadTimeout", "ConnectTimeout"}

\* isinstance(e, requests.exceptions.ConnectionError)
IsConnectionError(e) == e \in {"ConnectionError", "ConnectTimeout"}

\* what requests.request can do in one attempt
AttemptOutcomes ==
    {[kind |-> "response", code |-> c] : c \in {200, 500}}
    \cup {[kind |-> e, code |-> 0] : e \in Exceptions}

\* the except clause with the retry: line 118 for Jira, line 144 for Zephyr
Retries(client, e) ==
    IF client = "jira" THEN IsTimeout(e)
    ELSE IsTimeout(e) \/ IsConnectionError(e)

InitReq ==
    /\ req_client \in Clients
    /\ req_max_retries \in 0..MaxRetries
    /\ req_attempt = 0
    /\ req_pc = "attempt"
    /\ req_log = <<>>
    /\ req_waits = <<>>
    /\ req_result = NoResponse
    /\ MainInit /\ LoadIdle /\ ResolveIdle

\* return from the call
Return(resp) ==
    /\ req_result' = resp
    /\ req_pc' = "returned"
    /\ UNCHANGED <<req_attempt, req_waits>>

\* a pass of the loop that treats an answer with a 5xx status as a failure to
\* retry
ReqAttempt_RetryServerErrors ==
    /\ req_pc = "attempt"
    /\ req_attempt < req_max_retries
    /\ \E o \in AttemptOutcomes :
          /\ req_log' = Append(req_log, o)
          /\ IF o.kind = "response" /\ o.code < 500
             THEN Return(Resp(o.code, TRUE, NoFields))
             ELSE IF o.kind = "response" \/ Retries(req_client, o.kind)
             THEN IF req_attempt < req_max_retries - 1
                  THEN /\ req_pc' = "sleep"
                       /\ UNCHANGED <<req_attempt, req_waits, req_result>>
                  ELSE Return(NoResponse)
             ELSE Return(NoResponse)
    /\ UNCHANGED <<req_client, req_max_retries, mainVars, loadVars, resolveVars>>

\* one pass of the try statement in the loop
ReqAttempt ==
    /\ req_pc = "attempt"
    /\ req_attempt < req_max_retries
    /\ \E o \in AttemptOutcomes :
          /\ req_log' = Append(req_log, o)
          /\ IF o.kind = "response"
             THEN Return(Resp(o.code, TRUE, NoFields))
             ELSE IF Retries(req_client, o.kind)
             THEN IF req_attempt < req_max_retries - 1
                  THEN /\ req_pc' = "sleep"
                       /\ UNCHANGED <<req_attempt, req_waits, req_result>>
                  ELSE Return(NoResponse)
             ELSE Return(NoResponse)
    /\ UNCHANGED <<req_client, req_max_retries, mainVars, loadVars, resolveVars>>

\* wait = (attempt + 1) * 2; time.sleep(wait); then the next pass of the loop
ReqSleep ==
    /\ req_pc = "sleep"
    /\ req_waits' = Append(req_waits, (req_attempt + 1) * 2)
    /\ req_attempt' = req_attempt + 1
    /\ req_pc' = "attempt"
    /\ UNCHANGED <<req_client, req_max_retries, req_log, req_result,
                   mainVars, loadVars, resolveVars>>

\* the return None after the loop
ReqLoopEnd ==
    /\ req_pc = "attempt"
    /\ req_attempt >= req_max_retries
    /\ Return(NoResponse)
    /\ UNCHANGED <<req_client, req_max_retries, req_log,
                   mainVars, loadVars, resolveVars>>

NextReq == ReqAttempt \/ ReqSleep \/ ReqLoopEnd

\* the call runs on: requests.request ends within its timeout of 25 s and
\* time.sleep ends, so a step that can be taken is taken
SpecReqLive == InitReq /\ [][NextReq]_vars /\ WF_vars(NextReq)

SpecReq == InitReq /\ [][NextReq]_vars

(***************************************************************************)
(* load_executions_from_csv (lines 580-651), row by row.  A row is the     *)
(* dictionary csv.DictReader yields: the cells of a line under the column  *)
(* names of the header, in column order.                                   *)
(***************************************************************************)
MaxRows == 3

\* the column names each pick call looks for, in the order it tries them
IssueKeyNames ==
    <<<<"i","s","s","u","e"," ","k","e","y">>,
      <<"i","s","s","u","e","k","e","y">>>>
ExecutionIdNames ==
    <<<<"e","x","e","c","u","t","i","o","n","i","d">>,
      <<"e","x","e","c","u","t","i","o","n"," ","i","d">>>>
CycleNames ==
    <<<<"c","y","c","l","e","n","a","m","e">>,
      <<"t","e","s","t"," ","c","y","c","l","e">>>>
FolderNames ==
    <<<<"f","o","l","d","e","r","n","a","m","e">>,
      <<"f","o","l","d","e","r">>>>
VersionNames ==
    <<<<"v","e","r","s","i","o","n">>,
      <<"f","i","x","v","e","r","s","i","o","n">>>>
ComponentNames ==
    <<<<"c","o","m","p","o","n","e","n","t">>>>
StatusNames ==
    <<<<"e","x","e","c","u","t","i","o","n","s","t","a","t","u","s">>,
      <<"s","t","a","t","u","s">>>>
ExecutedOnNames ==
    <<<<"e","x","e","c","u","t","e","d"," ","o","n">>,
      <<"e","x","e","c","u","t","e","d","o","n">>>>
ExecutedByNames ==
    <<<<"e","x","e","c","u","t","e","d"," ","b","y">>,
      <<"e","x","e","c","u","t","e","d","b","y">>>>
AssignedToNames ==
    <<<<"a","s","s","i","g","n","e","d"," ","t","o">>,
      <<"a","s","s","i","g","n","e","d","t","o">>>>
CommentNames ==
    <<<<"c","o","m","m","e","n","t","s">>,
      <<"c","o","m","m","e","n","t">>>>
StepNames ==
    <<<<"s","t","e","p">>,
      <<"t","e","s","t","s","t","e","p">>,
      <<"t","e","s","t"," ","s","t","e","p">>>>
DataNames ==
    <<<<"t","e","s","t"," ","d","a","t","a">>,
      <<"d","a","t","a">>>>
ResultNames ==
    <<<<"e","x","p","e","c","t","e","d"," ","r","e","s","u","l","t">>,
      <<"t","e","s","t"," ","r","e","s","u","l","t">>,
      <<"r","e","s","u","l","t">>>>

Unexecuted == <<"U","N","E","X","E","C","U","T","E","D">>
ExpectedPrefix == <<"E","x","p","e","c","t","e","d",":"," ">>
Underscore == <<"_">>

Min(S) == CHOOSE x \in S : \A y \in S : x <= y

\* pick: for each name in turn, the first column of that name (up to case and
\* surrounding whitespace) whose stripped cell is not empty
pick(row, names, default) ==
    LET hits(n) == LET wanted == Lower(Strip(names[n]))
                   IN  {i \in DOMAIN row :
                          /\ Lower(Strip(row[i].key)) = wanted
                          /\ Strip(row[i].val) # <<>>}
        found == {n \in DOMAIN names : hits(n) # {}}
    IN  IF found = {} THEN default
        ELSE Strip(row[Min(hits(Min(found)))].val)

\* lines 620-632: the record a row initialises
new_record(raw, issue_key) ==
    [issue_key |-> issue_key,
     cycle_name |-> pick(raw, CycleNames, AdHoc),
     folder_name |-> pick(raw, FolderNames, <<>>),
     version_name |-> pick(raw, VersionNames, Unscheduled),
     component_name |-> pick(raw, ComponentNames, <<>>),
     status |-> pick(raw, StatusNames, Unexecuted),
     executed_on |-> pick(raw, ExecutedOnNames, <<>>),
     executed_by |-> pick(raw, ExecutedByNames, <<>>),
     assigned_to |-> pick(raw, AssignedToNames, <<>>),
     comment |-> pick(raw, CommentNames, <<>>),
     steps |-> <<>>]

\* lines 635-649: the steps a row appends, none or one
row_steps(raw) ==
    LET step_text == pick(raw, StepNames, <<>>)
        step_data == pick(raw, DataNames, <<>>)
        expected_result == pick(raw, ResultNames, <<>>)
        result_text == IF expected_result # <<>>
                       THEN ExpectedPrefix \o expected_result ELSE <<>>
    IN  IF step_text # <<>>
        THEN <<[step |-> step_text, data |-> step_data, result |-> result_text]>>
        ELSE <<>>

\* lines 608-616
unique_key_of(raw, issue_key) ==
    LET execution_id == pick(raw, ExecutionIdNames, <<>>)
        cycle == pick(raw, CycleNames, AdHoc)
        folder == pick(raw, FolderNames, <<>>)
    IN  IF execution_id # <<>> THEN execution_id
        ELSE issue_key \o Underscore \o cycle \o Underscore \o folder

\* a loader that skips only the rows without an issue key
Skipped_EmptyOnly(issue_key, retry_issue_keys) == issue_key = <<>>

\* lines 601-606: the two continue statements
Skipped(issue_key, retry_issue_keys) ==
    issue_key = <<>> \/ issue_key \notin retry_issue_keys

\* the position of unique_key in the dictionary, 0 when it is not a key
KeyIndex(execs, unique_key) ==
    IF \E i \in DOMAIN execs : execs[i].key = unique_key
    THEN CHOOSE i \in DOMAIN execs : execs[i].key = unique_key
    ELSE 0

\* the body of the loop over the rows (lines 600-649)
load_row(execs, raw, retry_issue_keys) ==
    LET issue_key == pick(raw, IssueKeyNames, <<>>) IN
    IF Skipped(issue_key, retry_issue_keys) THEN execs
    ELSE LET unique_key == unique_key_of(raw, issue_key)
             e1 == IF KeyIndex(execs, unique_key) = 0
                   THEN Append(execs, [key |-> unique_key,
                                       value |-> new_record(raw, issue_key)])
                   ELSE execs
             k == KeyIndex(e1, unique_key)
         IN  [e1 EXCEPT ![k].value.steps = @ \o row_steps(raw)]

RECURSIVE load_rows(_, _, _)
\* the dictionary after the given rows, starting from execs
load_rows(execs, rows, retry_issue_keys) ==
    IF rows = <<>> THEN execs
    ELSE load_rows(load_row(execs, Head(rows), retry_issue_keys), Tail(rows),
                   retry_issue_keys)

load_executions_from_csv(rows, retry_issue_keys) ==
    load_rows(<<>>, rows, retry_issue_keys)

\* the files of the model: two headers that name the same five columns, and
\* rows that share execution ids and keys in the ways the loader distinguishes
Headers ==
    {<<<<"I","s","s","u","e"," ","K","e","y">>, <<"E","x","e","c","u","t","i","o","n","I","d">>, <<"C","y","c","l","e","N","a","m","e">>, <<"F","o","l","d","e","r","N","a","m","e">>, <<"S","t","e","p">>>>,
     <<<<" ","I","S","S","U","E","K","E","Y">>, <<"E","x","e","c","u","t","i","o","n"," ","I","d"," ">>,
       <<"T","e","s","t"," ","C","y","c","l","e">>, <<"f","o","l","d","e","r">>, <<"T","e","s","t"," ","S","t","e","p">>>>}

KX == Key("0","0","0","0","1")
K1Padded == <<" ">> \o K1 \o <<" ">>
E7 == <<"7">>
E8 == <<"8">>
Composite == K1 \o Underscore \o AdHoc \o Underscore
StepA == <<"a">>
StepB == <<"b">>

Rows ==
    {<<K1, E7, Sprint1, <<>>, <<>>>>,
     <<K1, E7, Sprint1, <<>>, StepA>>,
     <<K1Padded, E7, <<>>, FolderA, StepB>>,
     <<K2, E8, Sprint1, <<>>, StepA>>,
     <<KX, E7, Sprint1, <<>>, StepB>>,
     <<KX, <<>>, <<>>, <<>>, StepA>>,
     <<K1, <<>>, <<>>, <<>>, StepB>>,
     <<K1, Composite, Sprint1, <<>>, StepA>>,
     <<K1, <<>>, Sprint1, FolderA, <<>>>>,
     <<K1, <<>>, Sprint1 \o Underscore \o FolderA, <<>>, StepA>>,
     <<K1, <<>>, Sprint1, FolderA \o Underscore, StepB>>,
     <<<<>>, E7, Sprint1, <<>>, StepA>>}

RECURSIVE SeqsOver(_, _)
\* the sequences over S of length at most n
SeqsOver(S, n) ==
    IF n = 0 THEN {<<>>}
    ELSE LET shorter == SeqsOver(S, n - 1)
         IN  shorter \cup {Append(s, x) : s \in shorter, x \in S}

\* the dictionary DictReader yields for a line
Row(header, cells) == [i \in DOMAIN header |-> [key |-> header[i], val |-> cells[i]]]

InitLoad ==
    /\ csv_header \in Headers
    /\ csv_rows \in SeqsOver(Rows, MaxRows)
    /\ row_i = 0
    /\ executions = <<>>
    /\ MainInit /\ ReqIdle /\ ResolveIdle

\* for raw in reader: one row
LoadRow ==
    /\ row_i < Len(csv_rows)
    /\ executions' = load_row(executions, Row(csv_header, csv_rows[row_i + 1]),
                              FAILED_ISSUE_KEYS)
    /\ row_i' = row_i + 1
    /\ UNCHANGED <<csv_header, csv_rows, mainVars, reqVars, resolveVars>>

NextLoad == LoadRow

SpecLoad == InitLoad /\ [][NextLoad]_vars


(***************************************************************************)
(* The get-or-create resolvers (lines 191-216 and 321-422) called in any   *)
(* order, with any of a few names and scopes and any answer of the server  *)
(***************************************************************************)
MaxCalls == 3

VersionNameSet == {V1, <<" ">> \o V1, <<"v","2">>, Unscheduled}
ComponentNameSet == {UI, <<" ">> \o UI}
CycleNameSet == {Sprint1, <<>>}
FolderNameSet == {FolderA, Lower(FolderA)}

\* the version ids and cycle ids the callers pass as scope; folders are
\* resolved in two cycles of the Unscheduled version
VersionIdSet == {-1, 7}
CycleIdSet == {"cyc-1", "cyc-2"}

\* what the resolvers never touch
restVars == <<pc, idx, exec_data, ops, total, project_id, user_mapping, all_users,
              issue_id_cache, user_cache, steps_created_for_issue, countVars,
              localVars, server_steps, step_syncs, sleeps, report, crash_at,
              reqVars, loadVars, remote_ok>>

InitResolve ==
    /\ pc = "resolvers"
    /\ project_id = 10000
    /\ versions_map \in {Put(ListingMap(l), Unscheduled, -1) : l \in VersionListings}
    /\ components_map = EmptyDict
    /\ LoopInit /\ ReqIdle /\ LoadIdle /\ ResolveIdle

\* a call returned: remember the first identifier returned for (kind, name,
\* scope); got says that the call returned an identifier
Returned(kind, name, scope, ret, req, got) ==
    LET key == <<kind, name, scope>> IN
    /\ last_call' = [kind |-> kind, known |-> Has(resolved, key),
                     first |-> IF Has(resolved, key) THEN resolved[key] ELSE ret,
                     ret |-> ret, req |-> req]
    /\ resolved' = IF got /\ ~Has(resolved, key) THEN Put(resolved, key, ret)
                   ELSE resolved
    /\ calls' = calls + 1

ResolveVersion ==
    /\ calls < MaxCalls
    /\ \E name \in VersionNameSet,
          resp \in FailureResponses \cup MalformedResponses(201)
                     \cup {IdResponse(201, 100 + next_id["ver"])} :
          LET r == get_or_create_version_id(project_id, versions_map, name, resp)
          IN  /\ versions_map' = r.map
              /\ Issued("ver", r.req /\ Has(resp.data, "id"))
              /\ Returned("version", name, <<project_id>>, r.ret, r.req,
                          r.ret # -1 \/ ~r.req)
    /\ UNCHANGED <<components_map, cycle_cache, folder_cache, folders_cache, restVars,
                   lookups>>

ResolveComponent ==
    /\ calls < MaxCalls
    /\ \E name \in ComponentNameSet,
          resp \in FailureResponses \cup MalformedResponses(201)
                     \cup {IdResponse(201, FreshId("comp"))} :
          LET r == get_or_create_component_id(target_project_key, components_map,
                                              name, resp)
          IN  /\ components_map' = r.map
              /\ Issued("comp", r.req /\ Has(resp.data, "id"))
              /\ Returned("component", name, <<target_project_key>>, r.ret, r.req,
                          Truthy(r.ret))
    /\ UNCHANGED <<versions_map, cycle_cache, folder_cache, folders_cache, restVars,
                   lookups>>

ResolveCycle ==
    /\ calls < MaxCalls
    /\ \E name \in CycleNameSet, vid \in VersionIdSet,
          resp \in FailureResponses \cup MalformedResponses(200)
                     \cup {IdResponse(200, FreshId("cyc"))} :
          LET r == get_or_create_cycle_id(project_id, vid, name, cycle_cache, resp)
          IN  /\ cycle_cache' = r.cache
              /\ Issued("cyc", r.req /\ Has(resp.data, "id"))
              /\ Returned("cycle", name, <<project_id, vid>>, r.ret, r.req,
                          ~r.raised /\ Truthy(r.ret))
              /\ CycleLooked(name, vid, r.req, ~r.raised /\ ~Truthy(r.ret))
    /\ UNCHANGED <<versions_map, components_map, folder_cache, folders_cache, restVars>>

ResolveFolder ==
    /\ calls < MaxCalls
    /\ \E name \in FolderNameSet, vid \in {-1}, cid \in CycleIdSet,
          listResp \in FailureResponses \cup {Resp(200, FALSE, <<>>)}
                         \cup {Resp(200, TRUE, l) : l \in FolderListings} :
       \E createResp \in FailureResponses \cup MalformedResponses(200)
                           \cup {Resp(200, TRUE, [id |-> FreshId("fold"),
                                                  name |-> name])} :
          LET r == get_or_create_folder_id(project_id, vid, cid, name, folder_cache,
                                           folders_cache, listResp, createResp)
          IN  /\ folder_cache' = r.cache
              /\ folders_cache' = r.folders
              /\ Issued("fold", r.req /\ Has(createResp.data, "id"))
              /\ Returned("folder", name, <<project_id, vid, cid>>, r.ret, r.req,
                          Truthy(r.ret))
              /\ FolderLooked(<<project_id, vid, cid>>, name, r, listResp, createResp)
    /\ UNCHANGED <<versions_map, components_map, cycle_cache, restVars>>

NextResolve == ResolveVersion \/ ResolveComponent \/ ResolveCycle \/ ResolveFolder

SpecResolve == InitResolve /\ [][NextResolve]_vars

(***************************************************************************)
(* execute_execution (lines 515-537) called once, for a record with any of *)
(* a few status texts and any resolved users, with any answer              *)
(***************************************************************************)
StatusSet ==
    {<<"P","A","S","S">>, Pass, <<"p","a","s","s">>, <<"p","A","s","S">>,
     <<"F","A","I","L">>, <<"f","a","i","l">>, <<"F","a","i","l">>,
     <<"W","I","P">>, <<"w","i","p">>,
     <<"B","L","O","C","K","E","D">>, <<"B","l","o","c","k","e","d">>,
     Unexecuted, Lower(Unexecuted),
     <<"P","A","S","S","E","D">>, <<"O","K">>, <<"P","A","S","S"," ">>,
     <<"s","k","i","p">>, <<>>}

\* the state at line 775 of a record whose execution was just created
InitExecute ==
    /\ pc = "execute"
    /\ project_id = 10000
    /\ versions_map = (Unscheduled :> -1)
    /\ components_map = EmptyDict
    /\ total = 1 /\ idx = 1
    /\ exec_data \in {[Bare(K1) EXCEPT !.status = s] : s \in StatusSet}
    /\ user_mapping = UserMappingFile
    /\ all_users = Directory
    /\ issue_id_cache = (K1 :> IssueIdOf[K1])
    /\ cycle_cache = EmptyDict
    /\ folder_cache = EmptyDict
    /\ folders_cache = EmptyDict
    /\ user_cache = EmptyDict
    /\ steps_created_for_issue = {}
    /\ created = 0 /\ failed = 0 /\ failed_items = <<>>
    /\ issue_id = IssueIdOf[K1] /\ version_id = -1 /\ cycle_id = "cyc-1"
    /\ folder_id = None
    /\ executed_by_id \in {None, "acc-jane"} /\ assigned_to_id \in {None, "acc-zed"}
    /\ new_exec_id = "exec-1"
    /\ ok = FALSE
    /\ next_id = [k \in {"comp", "cyc", "fold", "exec", "ver"} |-> 1]
    /\ server_steps = ExistingSteps
    /\ ops = <<>>
    /\ step_syncs = <<>>
    /\ sleeps = 0
    /\ report = NoFile
    /\ crash_at = None
    /\ remote_ok = TRUE
    /\ lookups = NoLookups
    /\ ReqIdle /\ LoadIdle /\ ResolveIdle

\* ok = execute_execution(...), with the request it sent kept in last_call
SendStatus ==
    /\ pc = "execute"
    /\ \E resp \in FailureResponses \cup {Resp(200, TRUE, NoFields)} :
          LET r == execute_execution(new_exec_id, issue_id, project_id, version_id,
                                     cycle_id, exec_data, executed_by_id,
                                     assigned_to_id, resp)
          IN  /\ ok' = r.ret
              /\ last_call' = [kind |-> "execute", path |-> r.path, body |-> r.body,
                               ret |-> r.ret]
    /\ calls' = calls + 1
    /\ pc' = "returned"
    /\ UNCHANGED <<idx, exec_data, ops, setupVars, cacheVars, countVars, issue_id,
                   version_id, cycle_id, folder_id, executed_by_id, assigned_to_id,
                   new_exec_id, envVars, remote_ok, lookups, reqVars, loadVars, resolved>>

NextExecute == SendStatus

SpecExecute == InitExecute /\ [][NextExecute]_vars

(***************************************************************************)
(* get_user_account_id (lines 288-318) called in any order with any of a   *)
(* few raw names, over one cache, for a few mapping files and directories  *)
(***************************************************************************)
UserNameSet ==
    {Jane, JaneInactive, Jane \o <<" ">> \o MarkerLow, Jane \o <<" ">> \o Upper(MarkerCap),
     Lower(Jane), <<" ","J","a","n","e"," "," ","D","o","e"," ">>, Zed, Amy, <<>>}

\* mapping files: none, the one of the workflow, one keyed by a raw name that
\* carries the marker, and one keyed by both forms of that name
MappingSet ==
    {EmptyDict, UserMappingFile, (JaneInactive :> "acc-raw"),
     (Jane :> "acc-map") @@ (JaneInactive :> "acc-raw")}

DirectorySet ==
    {<<>>, Directory,
     <<[displayName |-> Amy, accountId |-> "acc-amy"],
       [displayName |-> Upper(Jane), accountId |-> "acc-JANE"],
       [displayName |-> Jane, accountId |-> "acc-jane"]>>}

\* the state at line 757 of the first record, with the mapping file and the
\* directory as the setup left them
InitUsers ==
    /\ pc = "users"
    /\ project_id = 10000
    /\ versions_map = (Unscheduled :> -1)
    /\ components_map = EmptyDict
    /\ total = 1 /\ idx = 1
    /\ exec_data = Bare(K1)
    /\ user_mapping \in MappingSet
    /\ all_users \in DirectorySet
    /\ issue_id_cache = (K1 :> IssueIdOf[K1])
    /\ cycle_cache = EmptyDict
    /\ folder_cache = EmptyDict
    /\ folders_cache = EmptyDict
    /\ user_cache = EmptyDict
    /\ steps_created_for_issue = {}
    /\ created = 0 /\ failed = 0 /\ failed_items = <<>>
    /\ issue_id = IssueIdOf[K1] /\ version_id = -1 /\ cycle_id = "cyc-1"
    /\ folder_id = None
    /\ executed_by_id = None /\ assigned_to_id = None
    /\ new_exec_id = None
    /\ ok = FALSE
    /\ next_id = [k \in {"comp", "cyc", "fold", "exec", "ver"} |-> 1]
    /\ server_steps = ExistingSteps
    /\ ops = <<>>
    /\ step_syncs = <<>>
    /\ sleeps = 0
    /\ report = NoFile
    /\ crash_at = None
    /\ remote_ok = TRUE
    /\ lookups = NoLookups
    /\ ReqIdle /\ LoadIdle /\ ResolveIdle

\* one call of get_user_account_id, with its argument and result kept in
\* last_call
LookupUser ==
    /\ pc = "users"
    /\ calls < MaxCalls
    /\ \E name \in UserNameSet :
          LET r == get_user_account_id(name, user_cache, user_mapping, all_users)
          IN  /\ user_cache' = r.cache
              /\ last_call' = [kind |-> "user", name |-> name,
                               original |-> normalize_user_name(name),
                               cache |-> user_cache, ret |-> r.ret]
    /\ calls' = calls + 1
    /\ UNCHANGED <<pc, idx, exec_data, ops, setupVars, issue_id_cache, cycle_cache,
                   folder_cache, folders_cache, steps_created_for_issue, countVars,
                   localVars, envVars, remote_ok, lookups, reqVars, loadVars, resolved>>

NextUsers == LookupUser

SpecUsers == InitUsers /\ [][NextUsers]_vars

(***************************************************************************)
(* Properties of the workflow                                              *)
(***************************************************************************)
OpNames == [i \in DOMAIN ops |-> ops[i].op]
Did(name) == \E i \in DOMAIN ops : ops[i].op = name
LastItem == failed_items[Len(failed_items)]

\* the loop is between two records, or past the last one
RecordOver == pc \in {"sleep", "loop", "report", "done"}

\* C1: when the execution of a record was created and its status update then
\* failed, a DELETE for exactly that execution id has been issued by the time
\* the record is over, the record is counted failed and not created, and its
\* failure item carries that id as execution_id, with a failure reason.
C1_FailedStatusUpdateDeletes ==
    (RecordOver /\ Did("status_update") /\ ~ok) =>
        /\ Truthy(new_exec_id)
        /\ \E i \in DOMAIN ops : ops[i] = Op("delete", new_exec_id)
        /\ \A i \in DOMAIN ops : ops[i].op = "delete" => ops[i].id = new_exec_id
        /\ failed = Len(failed_items) /\ failed >= 1
        /\ (pc \in {"sleep", "loop"} => created + failed = idx)
        /\ Has(LastItem, "execution_id")
        /\ LastItem.execution_id = new_exec_id
        /\ LastItem.failure_reason = "Could not execute execution (deleted)"
        /\ LastItem.issue_key = exec_data.issue_key

C1_Witness ==
    pc = "sleep" /\ Did("execution_create") /\ Did("status_update") /\ ~ok
    /\ Did("delete")

\* C2: a record whose issue lookup returned no id has had no other call made
\* for it (no component, step, version, cycle, folder, execution, status,
\* comment or delete call), and is counted failed with 'Issue not found'.
C2_IssueNotFoundStops ==
    (idx >= 1 /\ pc \notin {"issue", "crashed"} /\ ~Truthy(issue_id)) =>
        /\ OpNames = <<"issue_lookup">>
        /\ failed = Len(failed_items) /\ failed >= 1
        /\ created + failed = idx
        /\ LastItem = FailureItem("Issue not found")
        /\ new_exec_id = None /\ cycle_id = None /\ version_id = 0

C2_Witness ==
    pc = "loop" /\ idx = 2 /\ ~Truthy(issue_id) /\ OpNames = <<"issue_lookup">>
    /\ created = 1

\* a version name that get_or_create_version_id does not map to the sentinel
NamedVersion == Lower(exec_data.version_name) # Lower(Unscheduled)

Rank(name) ==
    CASE name = "issue_lookup" -> 1
      [] name = "component_resolve" -> 2
      [] name = "component_update" -> 3
      [] name = "steps_sync" -> 4
      [] name = "version_resolve" -> 5
      [] name = "cycle_resolve" -> 6
      [] name = "folder_resolve" -> 7
      [] name = "execution_create" -> 8
      [] name = "status_update" -> 9
      [] name = "comment" -> 10
      [] name = "delete" -> 10

\* C4: the calls made for a record occur in the order issue lookup, component
\* update, step sync, version resolve, cycle resolve, folder resolve, execution
\* create, status update, comment, each at most once; an execution is created
\* only after a cycle resolution that returned an identifier, a comment is
\* attempted only after a successful status update and a delete only after a
\* failed one.
C4_CallOrder ==
    /\ \A i, j \in DOMAIN ops : i < j => Rank(ops[i].op) < Rank(ops[j].op)
    /\ Did("execution_create") => (Did("cycle_resolve") /\ Truthy(cycle_id))
    /\ Did("comment") => (Did("status_update") /\ ok)
    /\ Did("delete") => (Did("status_update") /\ ~ok)
    /\ Did("component_update") => Did("component_resolve")

C4_Witness ==
    OpNames = <<"issue_lookup", "component_resolve", "component_update", "steps_sync",
                "version_resolve", "cycle_resolve", "folder_resolve",
                "execution_create", "status_update", "comment">>

\* C5: step creation requests are issued for an issue only if the server
\* holds no test step for it at that time, and sync_steps_for_issue runs for
\* at most one record per issue key.
C5_StepsOnlyWhenServerHasNone ==
    /\ \A i \in DOMAIN step_syncs :
          step_syncs[i].creates > 0 => step_syncs[i].existing = 0
    /\ \A i, j \in DOMAIN step_syncs :
          step_syncs[i].issue_key = step_syncs[j].issue_key => i = j

\* C10: after the project lookup, no remote outcome met while records are
\* processed stops the run: no exception leaves the loop, and a run that ends
\* has processed every record, each one created or failed with a reason.
C10_RunSurvivesRemoteFailures ==
    /\ pc = "crashed" => crash_at \in {"project", "versions", "components"}
    /\ pc = "done" =>
          /\ idx = total
          /\ created + failed = total
          /\ \A i \in DOMAIN failed_items : failed_items[i].failure_reason # ""

\* every key of the dictionary c is a key of d, with the same value
Extends(d, c) == \A k \in DOMAIN c : k \in DOMAIN d /\ d[k] = c[k]

\* C22: no step of the run removes a key from a cache or changes the value
\* of a key that is present: the issue, cycle, folder and user caches and
\* the version and component maps only grow.
C22_CachesOnlyGrow ==
    [][/\ Extends(issue_id_cache', issue_id_cache)
       /\ Extends(cycle_cache', cycle_cache)
       /\ Extends(folder_cache', folder_cache)
       /\ Extends(user_cache', user_cache)
       /\ Extends(versions_map', versions_map)
       /\ Extends(components_map', components_map)]_vars

C22_Witness ==
    /\ idx = 2 /\ pc = "sleep"
    /\ Cardinality(DOMAIN issue_id_cache) = 2
    /\ Cardinality(DOMAIN cycle_cache) = 2
    /\ DOMAIN folder_cache # {}
    /\ DOMAIN user_cache # {}
    /\ Cardinality(DOMAIN versions_map) = 2
    /\ DOMAIN components_map # {}

\* the reason of the failure item that a step has just appended
LastReason == failed_items'[Len(failed_items')].failure_reason

\* the step fails the record for reason with no lookup request
FailsUnasked(reason) ==
    /\ pc' = "loop"
    /\ failed' = failed + 1
    /\ failed_items' # failed_items
    /\ LastReason = reason
    /\ lookups' = lookups

\* C23: a failed issue fetch and a failed cycle creation are memoized: a later
\* record with the same issue key, or the same (cycle name, version id), fails
\* with 'Issue not found', respectively 'Could not create cycle', without a
\* new request, so that a run makes at most one issue fetch per issue key and
\* at most one cycle creation call per (cycle name, version id)
C23_FailedLookupsMemoized ==
    [][/\ \A k \in DOMAIN lookups'.issue : lookups'.issue[k] <= 1
       /\ \A k \in DOMAIN lookups'.cycle : lookups'.cycle[k] <= 1
       /\ (pc = "issue" /\ exec_data.issue_key \in lookups.issue_failed)
            => FailsUnasked("Issue not found")
       /\ (pc = "cycle"
           /\ <<IF exec_data.cycle_name = <<>> THEN AdHoc ELSE exec_data.cycle_name,
                version_id>> \in lookups.cycle_failed)
            => FailsUnasked("Could not create cycle")]_vars

\* the second record of a run has failed on the cycle that the first record
\* could not create, after one creation call
C23_Witness ==
    /\ idx = 2 /\ pc = "loop" /\ failed = 2
    /\ failed_items[1].failure_reason = "Could not create cycle"
    /\ failed_items[2].failure_reason = "Could not create cycle"
    /\ Cardinality(lookups.cycle_failed) = 1
    /\ \A k \in lookups.cycle_failed : lookups.cycle[k] = 1

\* the (scope, name) for which a step has sent a folder creation request
CreationsAsked ==
    {k \in DOMAIN lookups'.create_reqs :
       ~Has(lookups.create_reqs, k) \/ lookups'.create_reqs[k] > lookups.create_reqs[k]}

Transport(e) == IsTimeout(e) \/ IsConnectionError(e)

\* C7: for both clients alike, an attempt that fails by connection failure or
\* timeout while fewer than max_retries attempts were made is followed by a
\* wait of 2*k seconds (k the number of the attempt) and another attempt, so a
\* call returns after such a failure only when max_retries attempts were
\* made; after any other exception, or after max_retries failed attempts, it
\* returns the absent result.
C7_ClientsRetryAlike ==
    LET n == Len(req_log) IN
    /\ \A k \in DOMAIN req_waits :
          /\ req_waits[k] = 2 * k
          /\ Transport(req_log[k].kind)
    /\ (req_pc = "returned" /\ n >= 1 /\ req_log[n].kind # "response") =>
          /\ req_result = NoResponse
          /\ Transport(req_log[n].kind) => n = req_max_retries
          /\ Len(req_waits) = n - 1

\* the attempts made so far are at most max_retries; only the last of them
\* can have obtained an HTTP response, and then the call has returned that
\* response, with its status code, without another attempt or wait
AttemptsBounded ==
    LET n == Len(req_log) IN
    /\ n <= req_max_retries
    /\ req_attempt <= n
    /\ \A k \in 1..(n - 1) : req_log[k].kind # "response"
    /\ (n >= 1 /\ req_log[n].kind = "response") =>
          /\ req_pc = "returned"
          /\ req_result = Resp(req_log[n].code, TRUE, NoFields)
          /\ Len(req_waits) = n - 1

\* C21: a call of jira_request or zephyr_request makes at most max_retries
\* attempts and returns in the end; an attempt that obtains an HTTP response
\* is the last one, and the call returns that response whatever its status
\* code is.
C21_BoundedAttemptsAndReturn ==
    /\ []AttemptsBounded
    /\ <>(req_pc = "returned")

C21_Witness ==
    /\ req_pc = "returned"
    /\ Len(req_log) = 2
    /\ req_log[2].kind = "response" /\ req_log[2].code = 500
    /\ req_result.code = 500

(***************************************************************************)
(* Properties of the CSV loader                                            *)
(***************************************************************************)
\* the rows read so far, as dictionaries
RowsRead == [i \in 1..row_i |-> Row(csv_header, csv_rows[i])]

\* the row's issue key is in the allow-list
Allowed(raw) == pick(raw, IssueKeyNames, <<>>) \in FAILED_ISSUE_KEYS

ExecutionIdOf(raw) == pick(raw, ExecutionIdNames, <<>>)

\* C8: the execution set built from the rows read so far is the one built
\* from the allow-listed rows among them alone: a row outside the allow-list
\* creates no record and adds no step, whatever execution id or key it shares.
C8_OtherRowsContributeNothing ==
    executions = load_executions_from_csv(SelectSeq(RowsRead, Allowed),
                                          FAILED_ISSUE_KEYS)

C8_Witness ==
    /\ row_i = Len(csv_rows) /\ row_i >= 2
    /\ \E i, j \in DOMAIN RowsRead :
          /\ ~Allowed(RowsRead[i]) /\ Allowed(RowsRead[j])
          /\ pick(RowsRead[i], IssueKeyNames, <<>>) # <<>>
          /\ ExecutionIdOf(RowsRead[i]) # <<>>
          /\ ExecutionIdOf(RowsRead[i]) = ExecutionIdOf(RowsRead[j])
          /\ row_steps(RowsRead[i]) # <<>>
    /\ executions # <<>>

RECURSIVE StepsOf(_)
\* the steps of the given rows, in order
StepsOf(rows) ==
    IF rows = <<>> THEN <<>> ELSE row_steps(Head(rows)) \o StepsOf(Tail(rows))

\* C9: for every non-empty execution id among the allow-listed rows read so
\* far, the execution set has exactly one record under that id; its scalar
\* fields are those of the first such row and its steps are exactly the steps
\* of the rows with that execution id, in file order.
C9_GroupedByExecutionId ==
    LET read == SelectSeq(RowsRead, Allowed)
        ids == {ExecutionIdOf(read[i]) : i \in DOMAIN read} \ {<<>>}
    IN  \A e \in ids :
           LET group == SelectSeq(read, LAMBDA r : ExecutionIdOf(r) = e)
               hits == {i \in DOMAIN executions : executions[i].key = e}
               first == new_record(group[1], pick(group[1], IssueKeyNames, <<>>))
           IN  /\ Cardinality(hits) = 1
               /\ \A i \in hits :
                     executions[i].value = [first EXCEPT !.steps = StepsOf(group)]

\* the position in executions of the record that the row was read into
\* (executions[unique_key], lines 619 and 635)
RecordOf(raw) ==
    KeyIndex(executions, unique_key_of(raw, pick(raw, IssueKeyNames, <<>>)))

\* issue key, cycle name (default 'Ad hoc') and folder name of a row
Triple(raw) ==
    <<pick(raw, IssueKeyNames, <<>>), pick(raw, CycleNames, AdHoc),
      pick(raw, FolderNames, <<>>)>>

\* C25: among the allow-listed rows read so far, two rows without an
\* execution id are in the same record if and only if they have the same
\* issue key, cycle name (default 'Ad hoc') and folder name, and a row
\* without an execution id is never in the record of a row that has one
C25_MergedIffSameTriple ==
    LET read == SelectSeq(RowsRead, Allowed) IN
    \A i, j \in DOMAIN read :
       /\ (ExecutionIdOf(read[i]) = <<>> /\ ExecutionIdOf(read[j]) = <<>>)
            => ((RecordOf(read[i]) = RecordOf(read[j]))
                  <=> (Triple(read[i]) = Triple(read[j])))
       /\ (ExecutionIdOf(read[i]) = <<>> /\ ExecutionIdOf(read[j]) # <<>>)
            => RecordOf(read[i]) # RecordOf(read[j])

(***************************************************************************)
(* Properties of the resolvers                                             *)
(***************************************************************************)
\* C6: when a resolver is called with a name and scope for which an earlier
\* call of the run returned an identifier (a call that ended in the
\* resolver's failure branch returned none), it returns that same identifier
\* and issues no creation request.
C6_KnownNameIsNotCreatedAgain ==
    last_call.known => (last_call.ret = last_call.first /\ ~last_call.req)

C6_Witness ==
    /\ last_call.known /\ last_call.kind = "folder"
    /\ \E k \in DOMAIN resolved : k[1] = "version" /\ resolved[k] > 100
    /\ calls = MaxCalls

\* C11: when the project lookup is not answered with a 200, the process
\* exits (sys.exit(1)) at once: it never gets past the lookup in any other
\* way, and at the exit the CSV has not been loaded, no versions, components
\* or users have been fetched, no record has been taken up, no request of a
\* record has been issued and no failure report has been written.
C11_ProjectFailureExits ==
    /\ (project_id = 0 /\ pc \notin {"user_mapping", "project", "crashed"})
          => pc = "exited"
    /\ pc = "exited" =>
          /\ project_id = 0
          /\ versions_map = EmptyDict /\ components_map = EmptyDict
          /\ all_users = <<>>
          /\ total = 0 /\ idx = 0 /\ exec_data = NoRecord
          /\ ops = <<>> /\ step_syncs = <<>> /\ sleeps = 0
          /\ created = 0 /\ failed = 0 /\ failed_items = <<>>
          /\ ~report.written

C11_Witness == pc = "exited" /\ user_mapping = UserMappingFile

\* C12: whenever the loop is between two records or past the last one, the
\* rate-limit delay has been applied once for every record processed so
\* far, whatever the outcome of each record was.
C12_DelayAfterEveryRecord ==
    pc \in {"loop", "report", "done"} => sleeps = idx

\* the status id the table gives a status text compared without regard to
\* letter case, and -1 for any other text
TableId(status) ==
    LET l == Lower(status) IN
    CASE l = <<"p","a","s","s">> -> 1
      [] l = <<"f","a","i","l">> -> 2
      [] l = <<"w","i","p">> -> 3
      [] l = <<"b","l","o","c","k","e","d">> -> 4
      [] l = <<"u","n","e","x","e","c","u","t","e","d">> -> -1
      [] OTHER -> -1

\* C13: the status id in the body of a status update is the table value of
\* the record's status compared case-insensitively (PASS 1, FAIL 2, WIP 3,
\* BLOCKED 4, UNEXECUTED -1), and -1 for every status outside the table.
C13_StatusIdFromTable ==
    last_call.kind = "execute" => last_call.body.status = TableId(exec_data.status)

C13_Witness ==
    /\ last_call.kind = "execute"
    /\ exec_data.status = <<"F","a","i","l">>
    /\ last_call.body.status = 2

\* the number of calls of one kind made for the current record
Count(name) == Cardinality({i \in DOMAIN ops : ops[i].op = name})

\* the run has a single record: status PASS, a cycle name, the version
\* Unscheduled, and an issue for which the server holds no test steps
SinglePassRow ==
    /\ total = 1 /\ idx = 1
    /\ Upper(exec_data.status) = <<"P","A","S","S">>
    /\ exec_data.cycle_name # <<>>
    /\ exec_data.version_name = Unscheduled
    /\ ExistingSteps[exec_data.issue_key] = 0

\* C14: a run over a single allow-listed row with status PASS, a cycle name
\* and version Unscheduled, for an issue without existing steps, in which
\* every remote call is served, does not stop early; once its record is
\* over it has issued exactly one execution creation, with version id -1 in
\* its body, no version creation (no version id was issued), one status
\* update with status id 1 and no delete, and created = 1 and failed = 0.
C14_SinglePassRowIsCreated ==
    /\ remote_ok => pc \notin {"crashed", "exited"}
    /\ (remote_ok /\ SinglePassRow /\ RecordOver) =>
          /\ Count("execution_create") = 1
          /\ version_id = -1
          /\ create_execution(project_id, version_id, cycle_id, folder_id, issue_id,
                              NoResponse).body.versionId = -1
          /\ next_id["ver"] = 1
          /\ Count("status_update") = 1
          /\ execute_execution(new_exec_id, issue_id, project_id, version_id, cycle_id,
                               exec_data, executed_by_id, assigned_to_id,
                               NoResponse).body.status = 1
          /\ Count("delete") = 0
          /\ created = 1 /\ failed = 0 /\ failed_items = <<>>

C14_Witness ==
    /\ remote_ok /\ SinglePassRow /\ pc = "done"
    /\ exec_data = Bare(K1)
    /\ created = 1

\* C15: whatever calls of get_user_account_id came before, a call with a
\* raw name returns the mapping's entry for the normalized name if there is
\* one, else the mapping's entry for the raw name if there is one, and the
\* account of the directory match only when the mapping has neither.
C15_MappingBeforeDirectory ==
    (last_call.kind = "user" /\ last_call.name # <<>>) =>
        last_call.ret =
            IF Has(user_mapping, last_call.original)
            THEN user_mapping[last_call.original]
            ELSE IF Has(user_mapping, last_call.name)
            THEN user_mapping[last_call.name]
            ELSE FindUser(all_users, last_call.original)

\* p occurs in s
Contains(s, p) == \E i \in 1..(Len(s) - Len(p) + 1) : SubSeq(s, i, i + Len(p) - 1) = p

\* s has no leading, trailing or repeated whitespace
Tidy(s) ==
    /\ s # <<>> => ~IsSpace(s[1]) /\ ~IsSpace(s[Len(s)])
    /\ \A i \in 1..(Len(s) - 1) : ~(IsSpace(s[i]) /\ IsSpace(s[i + 1]))

\* C17: the normalized form of a raw name holds no '(inactive)' marker in
\* any letter case and no leading, trailing or repeated whitespace; 'Jane
\* Doe (Inactive)' normalizes to 'Jane Doe'; and with an empty mapping a
\* first lookup of it returns the account of a directory entry whose
\* display name equals 'Jane Doe' up to letter case, when there is one.
C17_InactiveMarkerRemoved ==
    last_call.kind = "user" =>
        /\ ~Contains(Lower(last_call.original), MarkerLow)
        /\ Tidy(last_call.original)
        /\ last_call.name = JaneInactive => last_call.original = Jane
        /\ (last_call.name = JaneInactive /\ user_mapping = EmptyDict
              /\ last_call.cache = EmptyDict /\ all_users # <<>>) =>
              \E i \in DOMAIN all_users :
                 /\ Lower(all_users[i].displayName) = Lower(Jane)
                 /\ last_call.ret = all_users[i].accountId

\* the run has ended: normally, by an exception, or by sys.exit
RunOver == pc \in {"done", "crashed", "exited"}

\* the report holds one row per failure item, in the order of the failures,
\* each with a reason, under the union of the items' field names
ReportMatches ==
    /\ report.rows = failed_items
    /\ Len(report.rows) = failed
    /\ \A i \in DOMAIN report.rows :
          /\ Has(report.rows[i], "failure_reason")
          /\ report.rows[i].failure_reason # ""
    /\ report.fieldnames = UNION {DOMAIN failed_items[i] : i \in DOMAIN failed_items}
    /\ "execution_id" \in report.fieldnames
          <=> \E i \in DOMAIN failed_items :
                 failed_items[i].failure_reason = "Could not execute execution (deleted)"

\* C16: when the run has ended, a failure report has been written if and
\* only if at least one record failed; it then holds exactly one row per
\* failed record, in processing order, each with a non-empty failure_reason,
\* and its columns are the union of the field names of the failure items
\* (execution_id among them exactly when a record failed at status update).
C16_ReportIffFailures ==
    RunOver =>
        /\ report.written <=> failed > 0
        /\ report.written => ReportMatches

\* the identifiers of one kind the server has issued so far
IssuedIds(kind) == {kind \o "-" \o ToString(n) : n \in 1..(next_id[kind] - 1)}

\* C18: a get-or-create resolver whose creation failed (no response, a
\* non-2xx answer, or a 2xx answer without the identifier) does not raise
\* and returns an absent identifier, which no valid identifier equals: the
\* cycle id and the folder id of a record are absent or server-issued (or
\* listed), the id of a named version is never the id -1 of Unscheduled,
\* every component id in the map was issued, and so an execution is only
\* created under identifiers the server issued.
C18_FailedCreationIsAbsent ==
    /\ crash_at \notin {"component", "version", "cycle", "folder"}
    /\ cycle_id \in {None} \cup IssuedIds("cyc")
    /\ folder_id \in {None, "fold-0"} \cup IssuedIds("fold")
    /\ (Did("version_resolve") /\ NamedVersion) => version_id # -1
    /\ \A n \in DOMAIN components_map : components_map[n] \in IssuedIds("comp")
    /\ Did("execution_create") =>
          LET body == create_execution(project_id, version_id, cycle_id, folder_id,
                                       issue_id, NoResponse).body
          IN  /\ body.cycleId \in IssuedIds("cyc")
              /\ NamedVersion => body.versionId # -1
              /\ Has(body, "folderId") => body.folderId \in {"fold-0"} \cup IssuedIds("fold")

\* C19: once a record is over, a delete has been issued for it exactly when
\* its creation returned an id and its status update failed; a record never
\* has more than one delete, the delete addresses the id its own creation
\* returned, which the server issued; after the delete, whatever its answer,
\* the record is counted failed, not created, with the reason 'Could not
\* execute execution (deleted)'; and no delete follows a successful status
\* update.
C19_CompensationExact ==
    /\ Count("delete") <= 1
    /\ (RecordOver /\ idx >= 1) =>
          (Did("delete") <=> (Truthy(new_exec_id) /\ Did("status_update") /\ ~ok))
    /\ \A i \in DOMAIN ops :
          ops[i].op = "delete" =>
             /\ ops[i].id = new_exec_id
             /\ new_exec_id \in IssuedIds("exec")
             /\ \E j \in 1..(i - 1) : ops[j] = Op("execution_create", new_exec_id)
    /\ Did("delete") =>
          /\ RecordOver
          /\ failed = Len(failed_items) /\ failed >= 1
          /\ LastItem.failure_reason = "Could not execute execution (deleted)"
          /\ LastItem.issue_key = exec_data.issue_key
          /\ created + failed = idx
    /\ (Did("status_update") /\ ok) => ~Did("delete")

C19_Witness ==
    /\ pc = "loop" /\ idx = 2 /\ created = 1 /\ failed = 1
    /\ Count("delete") = 1
    /\ ~Did("comment")

\* C20: every record is taken up once, in load order, and ends created or
\* failed: between two records created + failed equals the number of
\* records processed and the failure list has 'failed' items, and when the
\* run has ended created + failed = total.
C20_EveryRecordCounted ==
    /\ idx <= total
    /\ failed = Len(failed_items)
    /\ pc = "loop" => created + failed = idx
    /\ RunOver => created + failed = total

=============================================================================
